---- MODULE Spec2Model ----
(***************************************************************************)
(* A state-machine model of the easify-seller assistant:                   *)
(*   - AISellerAgent (src/app/agent.py): the per-user conversation         *)
(*     contexts, tool dispatch and the bounded tool-calling loop of        *)
(*     process_message;                                                    *)
(*   - TelegramBot (src/app/bot.py): the inbound handlers and the delayed  *)
(*     follow-up tasks (schedule_followups / send_followup).               *)
(* process_message is a coroutine: one action per stretch of code between  *)
(* two awaits of the completion service.                                   *)
(***************************************************************************)
EXTENDS Integers, Sequences, FiniteSets, TLC

\* ---------------------------------------------------------------- bounds

\* most tool calls one completion may request
MaxToolCalls == 2
\* most departures, over the calls of one caller, from the plain course (a
\* found photo, completions that request one successful text search each):
\* a further request in the same completion, another tool, undecodable
\* arguments, a failing search, an eager photo search that finds nothing or
\* fails, a failing completion of the eager pass
MaxDeviations == 1
\* a new process_message call starts only on a history shorter than this
MaxHistory == 3

\* time.time() is read at most this many times (inbound and outbound stamps)
MaxClock == 4
\* most inbound-event handlers in flight at once
MaxHandlers == 2
\* the clock ticks of a behaviour in which the conversations are followed
MaxFollowupClock == 2
\* most commands handled in a behaviour
MaxCommands == 1

\* most raw matches the index holds for a query, and most products in them
MaxRaw == 4
\* largest k a search function is called with directly
MaxK == 2
\* most products of a catalog, and largest k a tool call asks for
MaxProducts == 6
\* most embedding documents the index holds for a query
MaxDocs == 6
\* most entries of bouquets.json
MaxBouquets == 2
MaxPhotos == 3
MaxSends == 2

\* ------------------------------------------------------- program constants

\* agent.py:492
max_iterations == 5
\* k=5 of the search functions and of function_args.get("k", 5):
\* search_tools.py:32, 96 and agent.py:365, 388
DefaultK == 5
\* the k of the eager image search, agent.py:441
EagerK == 3

Users == {1, 2}
AgentUsers == {1}
AgentCallers == {"c1"}
BotUsers == {1}

\* ------------------------------------------------------------- contents

UserMessage == "user message"
ToolResults == "Tool results:"
Answer == "answer"
FinalAnswer == "final answer"
NoContent == "None"
MaxReached == "I've reached the maximum number of search attempts. Let me provide you with the best results I found."
Apology == "I apologize, but I encountered an error while processing your request. Please try again."
SearchResults == "Product 1: ..."
PaymentResult == "Payment link generated"
NoBouquetsFound == "No bouquets found matching the criteria."
ErrNoPhoto == "Error: No photo provided for photo search"
ErrText == "Error: Failed to search products - "
ErrPhoto == "Error: Failed to search products by photo - "
ErrPayment == "Error: Failed to generate payment link - "

\* content.startswith("Error:")
StartsWithError(content) == content \in {ErrNoPhoto, ErrText, ErrPhoto, ErrPayment}

\* the texts process_message can hand back to its caller
TextStrings == {Answer, FinalAnswer, Apology}

NoId == 0
NoToolCalls == <<>>

ToolNames == {"search_products_by_text", "search_products_by_photo", "generate_payment_link"}
\* a completion may also name a function the schema does not declare
RequestedNames == ToolNames \cup {"unknown_tool"}
\* tool_call.function.arguments: a JSON object, or text json.loads rejects
ArgumentKinds == {"object", "malformed"}
\* what the search / payment collaborator does when it is invoked
Outcomes == {"ok", "raise"}

VARIABLES
    conversation_contexts,  \* user_id -> sequence of turns (absent key: no state)
    calls,                  \* caller -> the frame of its process_message call
    now,                    \* the number of time.time() readings taken so far
    first_message_sent,     \* set of user ids
    last_message_time,      \* user_id -> stamp of the last recorded inbound event
    last_bot_response_time, \* user_id -> stamp of the last reply of a handler
    pending_followups,      \* user_id -> (trigger name -> task)
    sent_followups,         \* user_id -> set of trigger names
    tasks,                  \* the send_followup tasks that are not done
    handlers,               \* user_id -> (handler position -> handlers there)
    delivery,               \* the last re-engagement message handed to the transport
    period_sends,           \* user_id -> (trigger name -> messages since the last inbound event)
    cancelled,              \* the tasks the last update_user_activity cancelled
    mode,                   \* what a specification follows; fixed by its initial state
    matches,                \* what the index holds for the query, nearest first as it says
    search,                 \* the last call of a search function: arguments and results
    command,                \* the last command handled
    embed,                  \* the batch of embed.py: its input, position and collection
    sending                 \* the frame of a send_response_with_photos call

agentVars == <<conversation_contexts, calls>>
botVars == <<now, first_message_sent, last_message_time, last_bot_response_time,
             pending_followups, sent_followups, tasks, handlers, delivery,
             period_sends, cancelled, mode>>
vars == <<conversation_contexts, calls, now, first_message_sent, last_message_time,
          last_bot_response_time, pending_followups, sent_followups, tasks,
          handlers, delivery, period_sends, cancelled, mode, matches, search,
          command, embed, sending>>
\* what the steps of the agent and of the engagement never write
searchVars == <<matches, search, embed, sending>>

\* -------------------------------------------------------- ConversationState

get_conversation_context(cc, user_id) ==
    IF user_id \in DOMAIN cc THEN cc[user_id] ELSE <<>>

add_to_context_trimmed(cc, user_id, role, content, tool_calls, tool_call_id) ==
    LET message == [role |-> role, content |-> content,
                    tool_calls |-> tool_calls, tool_call_id |-> tool_call_id]
        all == Append(get_conversation_context(cc, user_id), message)
    IN  [u \in DOMAIN cc \cup {user_id} |->
            IF u = user_id
            THEN IF Len(all) > 2 THEN SubSeq(all, Len(all) - 1, Len(all)) ELSE all
            ELSE cc[u]]

add_to_context(cc, user_id, role, content, tool_calls, tool_call_id) ==
    LET message == [role |-> role, content |-> content,
                    tool_calls |-> tool_calls, tool_call_id |-> tool_call_id]
    IN  [u \in DOMAIN cc \cup {user_id} |->
            IF u = user_id
            THEN Append(get_conversation_context(cc, user_id), message)
            ELSE cc[u]]

\* ------------------------------------------------------------ tool dispatch

\* json.loads(tool_call.function.arguments), agent.py:353
JsonLoadsRaises(tool_call) == tool_call.arguments = "malformed"

\* One dispatch: the new contexts and whether the dispatch raised.
execute_tool_call(cc, user_id, tool_call, photo_path, outcome) ==
    IF JsonLoadsRaises(tool_call)
    THEN [cc |-> cc, raised |-> TRUE]
    ELSE IF tool_call.name = "search_products_by_text"
    THEN [cc |-> add_to_context(cc, user_id, "tool",
                    IF outcome = "ok" THEN SearchResults ELSE ErrText,
                    NoToolCalls, tool_call.id),
          raised |-> FALSE]
    ELSE IF tool_call.name = "search_products_by_photo"
    THEN [cc |-> add_to_context(cc, user_id, "tool",
                    IF ~photo_path THEN ErrNoPhoto
                    ELSE IF outcome = "ok" THEN SearchResults ELSE ErrPhoto,
                    NoToolCalls, tool_call.id),
          raised |-> FALSE]
    ELSE IF tool_call.name = "generate_payment_link"
    THEN [cc |-> add_to_context(cc, user_id, "tool",
                    IF outcome = "ok" THEN PaymentResult ELSE ErrPayment,
                    NoToolCalls, tool_call.id),
          raised |-> FALSE]
    ELSE [cc |-> cc, raised |-> FALSE]

\* for tool_call in message_response.tool_calls: self._execute_tool_call(...)
\* from the i-th call on; the loop ends at the first dispatch that raises.
\* dispatched counts the dispatches begun.
RECURSIVE execute_tool_calls(_, _, _, _, _, _)
execute_tool_calls(cc, user_id, tool_calls, photo_path, outcomes, i) ==
    IF i > Len(tool_calls)
    THEN [cc |-> cc, raised |-> FALSE, dispatched |-> 0]
    ELSE LET one == execute_tool_call(cc, user_id, tool_calls[i], photo_path, outcomes[i])
         IN  IF one.raised
             THEN [cc |-> one.cc, raised |-> TRUE, dispatched |-> 1]
             ELSE LET rest == execute_tool_calls(one.cc, user_id, tool_calls,
                                                 photo_path, outcomes, i + 1)
                  IN  [cc |-> rest.cc, raised |-> rest.raised,
                       dispatched |-> rest.dispatched + 1]

\* ------------------------------------------------------ completion service

\* the tool-call requests a completion may carry (ids are given on arrival)
ToolCallChoices == [name : RequestedNames, arguments : ArgumentKinds]
RequestSeqs == UNION {[1..n -> ToolCallChoices] : n \in 1..MaxToolCalls}
OutcomeSeqs(n) == [1..n -> Outcomes]

\* correlation ids, fresh within a history: the history grows with every
\* completion that requests tool calls
WithIds(tcs, len) ==
    [i \in 1..Len(tcs) |-> [id |-> len * MaxToolCalls + i,
                            name |-> tcs[i].name,
                            arguments |-> tcs[i].arguments]]

Deviant(tc, outcome) ==
    \/ tc.name # "search_products_by_text"
    \/ tc.arguments # "object"
    \/ outcome = "raise"
Cost(tcs, outs) ==
    (Len(tcs) - 1) + Cardinality({i \in 1..Len(tcs) : Deviant(tcs[i], outs[i])})
RaiseCost(outs) == Cardinality({i \in 1..Len(outs) : outs[i] = "raise"})

\* a completion that requests tool calls, with what the collaborators do
\* when the calls are dispatched
ToolCompletions ==
    UNION {{[tcs |-> tcs, outs |-> outs, cost |-> Cost(tcs, outs)] :
                outs \in OutcomeSeqs(Len(tcs))} : tcs \in RequestSeqs}
AffordableWithin == [budget \in 0..MaxDeviations |->
                        {r \in ToolCompletions : r.cost <= budget}]
Affordable(budget) == AffordableWithin[budget]

\* --------------------------------------------------------- process_message

IdleFrame ==
    [pc |-> "idle", user_id |-> 0, photo_path |-> FALSE, iteration |-> 0,
     message_response |-> NoToolCalls, ret |-> "",
     \* bookkeeping of the call, read by the properties only: base is the
     \* length of the history when the call began, last the place of the
     \* turn the call appended last
     base |-> 0, last |-> 0, tool_requests |-> 0, plain_requests |-> 0, deviations |-> 0,
     n_dispatch |-> 0, n_tool_turns |-> 0, tool_raised |-> FALSE,
     photo_exc |-> FALSE, aborted |-> FALSE, all_tools |-> TRUE,
     \* the eager image searches of the call: arguments and outcome
     eager_searches |-> <<>>]

LoopGuardOffByOne(f) == f.iteration <= max_iterations

\* while iteration < max_iterations, agent.py:495
LoopGuard(f) == f.iteration < max_iterations

AbortWithoutTurn(c, cc, f) ==
    /\ conversation_contexts' = cc
    /\ calls' = [calls EXCEPT ![c] =
          [f EXCEPT !.pc = "done", !.ret = Apology, !.aborted = TRUE]]
    /\ UNCHANGED <<botVars, searchVars, command>>

AbortReturnsNone(c, cc, f) ==
    /\ conversation_contexts' =
          add_to_context(cc, f.user_id, "assistant", Apology, NoToolCalls, NoId)
    /\ calls' = [calls EXCEPT ![c] =
          [f EXCEPT !.pc = "done", !.ret = NoContent, !.aborted = TRUE,
                    !.last = Len(get_conversation_context(cc, f.user_id)) + 1]]
    /\ UNCHANGED <<botVars, searchVars, command>>

\* except Exception as e: ... add_to_context(apology); return error_msg
\* agent.py:559-563
Abort(c, cc, f) ==
    /\ conversation_contexts' =
          add_to_context(cc, f.user_id, "assistant", Apology, NoToolCalls, NoId)
    /\ calls' = [calls EXCEPT ![c] =
          [f EXCEPT !.pc = "done", !.ret = Apology, !.aborted = TRUE,
                    !.last = Len(get_conversation_context(cc, f.user_id)) + 1]]
    /\ UNCHANGED <<botVars, searchVars, command>>

\* return <text> after add_to_context(user_id, "assistant", <text>)
ReturnTextAndGoOn(c, cc, f, text) ==
    /\ conversation_contexts' =
          add_to_context(cc, f.user_id, "assistant", text, NoToolCalls, NoId)
    /\ calls' = [calls EXCEPT ![c] =
          [f EXCEPT !.pc = "loop", !.ret = text,
                    !.last = Len(get_conversation_context(cc, f.user_id)) + 1]]
    /\ UNCHANGED <<botVars, searchVars, command>>

ReturnText(c, cc, f, text) ==
    /\ conversation_contexts' =
          add_to_context(cc, f.user_id, "assistant", text, NoToolCalls, NoId)
    /\ calls' = [calls EXCEPT ![c] =
          [f EXCEPT !.pc = "done", !.ret = text,
                    !.last = Len(get_conversation_context(cc, f.user_id)) + 1]]
    /\ UNCHANGED <<botVars, searchVars, command>>

\* add_to_context(assistant turn with the requests); dispatch each request.
\* The frame afterwards, with the dispatch bookkeeping.
Dispatched(f, cc1, ex) ==
    [f EXCEPT !.n_dispatch = @ + ex.dispatched,
              !.n_tool_turns = @ + Len(ex.cc[f.user_id]) - Len(cc1[f.user_id]),
              !.tool_raised = @ \/ ex.raised,
              !.last = Len(ex.cc[f.user_id])]

InjectsAlways(photo, eager) == photo

\* if photo_path: ... if results:, agent.py:433, 444
Injects(photo, eager) == photo /\ eager = "results"

\* search_products_by_photo(photo_path, min_price=None, max_price=None, k=3),
\* agent.py:437-442
EagerSearch(eager) ==
    [fn |-> "search_products_by_photo", min_price |-> <<>>, max_price |-> <<>>,
     k |-> EagerK, outcome |-> eager]

\* agent.py:426-449: the user turn, then the eager photo search when a photo
\* is attached (search_products_by_photo is synchronous), up to the first await.
ProcessMessageStart(c, u, photo, eager) ==
    LET f   == calls[c]
        ctx == get_conversation_context(conversation_contexts, u)
        cc1 == add_to_context(conversation_contexts, u, "user", UserMessage,
                              NoToolCalls, NoId)
        f1  == [IdleFrame EXCEPT !.user_id = u, !.photo_path = photo,
                                 !.base = Len(ctx), !.deviations = f.deviations,
                                 !.last = Len(ctx) + (IF Injects(photo, eager)
                                                      THEN 2 ELSE 1),
                                 !.eager_searches = IF photo THEN <<EagerSearch(eager)>>
                                                    ELSE <<>>]
    IN  /\ f.pc \in {"idle", "done"}
        /\ Len(ctx) < MaxHistory
        /\ photo \/ eager = "none"
        /\ ~photo \/ eager # "none"
        /\ eager \in {"empty", "raise"} => f.deviations < MaxDeviations
        /\ IF Injects(photo, eager)
           THEN /\ conversation_contexts' =
                      add_to_context(cc1, u, "assistant", ToolResults, NoToolCalls, NoId)
                /\ calls' = [calls EXCEPT ![c] = [f1 EXCEPT !.pc = "photo_completion"]]
           ELSE /\ conversation_contexts' = cc1
                /\ calls' = [calls EXCEPT ![c] =
                      [f1 EXCEPT !.pc = "loop", !.photo_exc = (eager = "raise"),
                                 !.deviations = @ + (IF eager = "none" THEN 0 ELSE 1)]]
        /\ UNCHANGED <<botVars, searchVars, command>>

PhotoCompletionFailAborts(c) ==
    LET f == calls[c]
    IN  /\ f.pc = "photo_completion"
        /\ f.deviations < MaxDeviations
        /\ Abort(c, conversation_contexts,
                 [f EXCEPT !.tool_requests = @ + 1, !.photo_exc = TRUE,
                           !.all_tools = FALSE, !.deviations = @ + 1])

\* agent.py:457-489, the completion of the eager photo pass fails:
\* the inner handler absorbs it and the main loop follows.
PhotoCompletionFail(c) ==
    LET f == calls[c]
    IN  /\ f.pc = "photo_completion"
        /\ f.deviations < MaxDeviations
        /\ calls' = [calls EXCEPT ![c] =
              [f EXCEPT !.pc = "loop", !.tool_requests = @ + 1, !.photo_exc = TRUE,
                        !.all_tools = FALSE, !.deviations = @ + 1]]
        /\ UNCHANGED <<conversation_contexts, botVars, searchVars, command>>

\* agent.py:477-482
PhotoCompletionText(c) ==
    LET f == calls[c]
    IN  /\ f.pc = "photo_completion"
        /\ ReturnText(c, conversation_contexts,
                      [f EXCEPT !.tool_requests = @ + 1, !.all_tools = FALSE], Answer)

\* agent.py:468-476; an exception of a dispatch is absorbed at 487-489
PhotoCompletionTools(c, tcs, outs) ==
    LET f   == calls[c]
        u   == f.user_id
        tool_calls == WithIds(tcs, Len(get_conversation_context(conversation_contexts, u)))
        cc1 == add_to_context(conversation_contexts, u, "assistant", NoContent,
                              tool_calls, NoId)
        ex  == execute_tool_calls(cc1, u, tool_calls, f.photo_path, outs, 1)
        f1  == Dispatched([f EXCEPT !.tool_requests = @ + 1,
                                    !.deviations = @ + Cost(tcs, outs)], cc1, ex)
    IN  /\ f.pc = "photo_completion"
        /\ conversation_contexts' = ex.cc
        /\ calls' = [calls EXCEPT ![c] =
              [f1 EXCEPT !.pc = "loop", !.photo_exc = ex.raised]]
        /\ UNCHANGED <<botVars, searchVars, command>>

\* agent.py:495-511 and 559-563: the completion of a loop iteration fails
LoopCompletionFail(c) ==
    LET f == calls[c]
    IN  /\ f.pc = "loop"
        /\ LoopGuard(f)
        /\ Abort(c, conversation_contexts,
                 [f EXCEPT !.iteration = @ + 1, !.tool_requests = @ + 1,
                           !.all_tools = FALSE])

\* agent.py:529-533
LoopCompletionText(c) ==
    LET f == calls[c]
    IN  /\ f.pc = "loop"
        /\ LoopGuard(f)
        /\ ReturnText(c, conversation_contexts,
                      [f EXCEPT !.iteration = @ + 1, !.tool_requests = @ + 1,
                                !.all_tools = FALSE], Answer)

\* agent.py:516-527
LoopCompletionTools(c, tcs, outs) ==
    LET f   == calls[c]
        u   == f.user_id
        tool_calls == WithIds(tcs, Len(get_conversation_context(conversation_contexts, u)))
        cc1 == add_to_context(conversation_contexts, u, "assistant", NoContent,
                              tool_calls, NoId)
        ex  == execute_tool_calls(cc1, u, tool_calls, f.photo_path, outs, 1)
        f1  == Dispatched([f EXCEPT !.iteration = @ + 1, !.tool_requests = @ + 1,
                                    !.message_response = tool_calls,
                                    !.deviations = @ + Cost(tcs, outs)], cc1, ex)
    IN  /\ f.pc = "loop"
        /\ LoopGuard(f)
        /\ IF ex.raised
           THEN Abort(c, ex.cc, f1)
           ELSE /\ conversation_contexts' = ex.cc
                /\ calls' = [calls EXCEPT ![c] = f1]
                /\ UNCHANGED <<botVars, searchVars, command>>

\* the ceiling is reached and the last completion is handed back as it is
FinalCompletionUnresolved(c, outs, answered) ==
    LET f == calls[c]
    IN  /\ f.pc = "loop"
        /\ ~LoopGuard(f)
        /\ ReturnText(c, conversation_contexts, f, NoContent)

\* agent.py:535-557: the loop ran out. The requests of the last completion
\* are appended and dispatched (again), then one completion is requested
\* without tools; text says whether that request answers or fails.
FinalCompletion(c, outs, answered) ==
    LET f   == calls[c]
        u   == f.user_id
        tool_calls == f.message_response
        cc1 == add_to_context(conversation_contexts, u, "assistant", MaxReached,
                              tool_calls, NoId)
        ex  == execute_tool_calls(cc1, u, tool_calls, f.photo_path, outs, 1)
        f1  == Dispatched([f EXCEPT !.deviations = @ + RaiseCost(outs)], cc1, ex)
        f2  == [f1 EXCEPT !.plain_requests = @ + 1]
    IN  /\ f.pc = "loop"
        /\ ~LoopGuard(f)
        /\ f.deviations + RaiseCost(outs) <= MaxDeviations
        /\ IF tool_calls # NoToolCalls
           THEN IF ex.raised THEN Abort(c, ex.cc, f1)
                ELSE IF answered THEN ReturnText(c, ex.cc, f2, FinalAnswer)
                ELSE Abort(c, ex.cc, f2)
           ELSE ReturnText(c, conversation_contexts, f, Answer)

NoDelivery == [type |-> "none"]
NoSearch == [fn |-> "none"]
\* embed.py has not run, and no response is being sent
NoEmbed == [pc |-> "none"]
NoSending == [pc |-> "idle"]

\* no query is answered and no search function has been called
NoSearchYet ==
    /\ matches = <<>>
    /\ search = NoSearch
    /\ embed = NoEmbed
    /\ sending = NoSending

\* no command has been handled
NoCommand == [command |-> "none", user |-> 0, removed |-> 0, n |-> 0]

\* TelegramBot.__init__, bot.py:24-37
InitEngagement ==
    /\ now = 0
    /\ first_message_sent = {}
    /\ last_message_time = [u \in {} |-> 0]
    /\ last_bot_response_time = [u \in {} |-> 0]
    /\ pending_followups = [u \in {} |-> <<>>]
    /\ sent_followups = [u \in {} |-> {}]
    /\ tasks = {}
    /\ handlers = [u \in BotUsers |-> [p \in {"first_wait", "typing", "awaiting"} |-> 0]]
    /\ delivery = NoDelivery
    /\ period_sends = [u \in BotUsers |-> [n \in {"first", "second", "third"} |-> 0]]
    /\ cancelled = {}

\* AISellerAgent.__init__, agent.py:12
InitAgent ==
    /\ conversation_contexts = [u \in {} |-> <<>>]
    /\ calls = [c \in AgentCallers |-> IdleFrame]
    /\ InitEngagement
    /\ mode = [talk |-> TRUE, lossy |-> FALSE, handlers |-> 1, clock |-> MaxClock]
    /\ NoSearchYet
    /\ command = NoCommand

NextAgent ==
    \E c \in AgentCallers :
        \/ \E u \in AgentUsers, photo \in BOOLEAN, eager \in {"none", "results", "empty", "raise"} :
              ProcessMessageStart(c, u, photo, eager)
        \/ PhotoCompletionFail(c)
        \/ PhotoCompletionText(c)
        \/ \E r \in Affordable(MaxDeviations - calls[c].deviations) :
              PhotoCompletionTools(c, r.tcs, r.outs)
        \/ LoopCompletionFail(c)
        \/ LoopCompletionText(c)
        \/ \E r \in Affordable(MaxDeviations - calls[c].deviations) :
              LoopCompletionTools(c, r.tcs, r.outs)
        \/ \E outs \in OutcomeSeqs(Len(calls[c].message_response)), answered \in BOOLEAN :
              FinalCompletion(c, outs, answered)

SpecAgent == InitAgent /\ [][NextAgent]_vars

\* an awaited completion request resolves: it answers or it fails
CompletionStep ==
    \E c \in AgentCallers :
        \/ PhotoCompletionFail(c)
        \/ PhotoCompletionText(c)
        \/ \E r \in Affordable(MaxDeviations - calls[c].deviations) :
              PhotoCompletionTools(c, r.tcs, r.outs)
        \/ LoopCompletionFail(c)
        \/ LoopCompletionText(c)
        \/ \E r \in Affordable(MaxDeviations - calls[c].deviations) :
              LoopCompletionTools(c, r.tcs, r.outs)
        \/ \E outs \in OutcomeSeqs(Len(calls[c].message_response)), answered \in BOOLEAN :
              FinalCompletion(c, outs, answered)

SpecAgentFair == SpecAgent /\ WF_vars(CompletionStep)

\* two process_message calls of one user at a time (two handlers, or a
\* handler and a trigger: bot.py:327, 578), answered without tool calls
Callers == {"c1", "c2"}
InitInterleaved ==
    /\ conversation_contexts = [u \in {} |-> <<>>]
    /\ calls = [c \in Callers |-> IdleFrame]
    /\ InitEngagement
    /\ mode = [talk |-> TRUE, lossy |-> FALSE, handlers |-> 1, clock |-> MaxClock]
    /\ NoSearchYet
    /\ command = NoCommand
NextInterleaved ==
    \E c \in Callers :
        \/ \E u \in AgentUsers, photo \in BOOLEAN,
              eager \in {"none", "results", "empty", "raise"} :
              ProcessMessageStart(c, u, photo, eager)
        \/ PhotoCompletionFail(c)
        \/ PhotoCompletionText(c)
        \/ LoopCompletionFail(c)
        \/ LoopCompletionText(c)
SpecInterleaved == InitInterleaved /\ [][NextInterleaved]_vars

\* ------------------------------------------------------- TelegramBot state

TriggerNames == {"first", "second", "third"}

\* context_message = f"user did not answer in {time_description}" for the
\* delays 20, 300 and 18000 of schedule_followups (bot.py:527-540, 604-613)
IdleNote(followup_type) ==
    CASE followup_type = "first" -> "user did not answer in 20sec"
      [] followup_type = "second" -> "user did not answer in 5 minutes"
      [] followup_type = "third" -> "user did not answer in 5 hours"

\* fallback_messages, bot.py:589-594
Fallback(followup_type) ==
    CASE followup_type = "first" -> "Did you like what you saw?"
      [] followup_type = "second" -> "Do you want something different? I'm here to help!"
      [] followup_type = "third" -> "Waiting for your answer! Maybe you want something different like..."

\* the delays of schedule_followups, bot.py:529, 534, 539
Delay(followup_type) ==
    CASE followup_type = "first" -> 20
      [] followup_type = "second" -> 300
      [] followup_type = "third" -> 18000

IdleNotes == {IdleNote(n) : n \in TriggerNames}
Fallbacks == {Fallback(n) : n \in TriggerNames}

At(times, user_id) == IF user_id \in DOMAIN times THEN times[user_id] ELSE 0
Put(map, key, value) ==
    [k \in DOMAIN map \cup {key} |-> IF k = key THEN value ELSE map[k]]

PendingOf(user_id) ==
    IF user_id \in DOMAIN pending_followups THEN pending_followups[user_id] ELSE <<>>
\* the task pending_followups[user_id][name] refers to, while it is not done
PendingTask(user_id, name) ==
    {t \in tasks : /\ t.user = user_id /\ t.type = name
                   /\ name \in DOMAIN PendingOf(user_id)
                   /\ t.armed_at = PendingOf(user_id)[name]}
\* the tasks update_user_activity calls cancel() on
Cancellable(user_id) == UNION {PendingTask(user_id, n) : n \in TriggerNames}

InFlight(user_id) ==
    handlers[user_id]["first_wait"] + handlers[user_id]["typing"]
        + handlers[user_id]["awaiting"]
\* a handler of the user is between update_user_activity and its reply
Busy(user_id) == handlers[user_id]["typing"] + handlers[user_id]["awaiting"] > 0
Move(user_id, from, to) ==
    handlers' = [handlers EXCEPT ![user_id] =
        [p \in DOMAIN @ |-> @[p] + (IF p = to THEN 1 ELSE 0) - (IF p = from THEN 1 ELSE 0)]]

UpdateUserActivityNoCancel(user_id, lost) ==
    /\ now' = now + 1
    /\ last_message_time' = Put(last_message_time, user_id, now + 1)
    /\ tasks' = tasks
    /\ cancelled' = {}
    /\ pending_followups' =
          IF user_id \in DOMAIN pending_followups
          THEN [pending_followups EXCEPT ![user_id] = <<>>]
          ELSE pending_followups
    /\ sent_followups' =
          IF user_id \in DOMAIN sent_followups
          THEN [sent_followups EXCEPT ![user_id] = {}]
          ELSE sent_followups
    /\ period_sends' = [period_sends EXCEPT ![user_id] = [n \in TriggerNames |-> 0]]

\* bot.py:497-511. task.cancel() ends a task at the await it is suspended
\* at; lost holds the tasks on which the cancellation takes no effect.
UpdateUserActivity(user_id, lost) ==
    /\ now' = now + 1
    /\ last_message_time' = Put(last_message_time, user_id, now + 1)
    /\ tasks' = tasks \ (Cancellable(user_id) \ lost)
    /\ cancelled' = Cancellable(user_id) \ lost
    /\ pending_followups' =
          IF user_id \in DOMAIN pending_followups
          THEN [pending_followups EXCEPT ![user_id] = <<>>]
          ELSE pending_followups
    /\ sent_followups' =
          IF user_id \in DOMAIN sent_followups
          THEN [sent_followups EXCEPT ![user_id] = {}]
          ELSE sent_followups
    /\ period_sends' = [period_sends EXCEPT ![user_id] = [n \in TriggerNames |-> 0]]

ToArmAll(user_id) == TriggerNames

\* the names schedule_followups creates a task for, bot.py:528, 533, 538
ToArm(user_id) ==
    {n \in TriggerNames :
        n \notin DOMAIN PendingOf(user_id) \/ PendingTask(user_id, n) = {}}

\* the text a task keeps of what process_message returned: the text itself
\* where the conversations are followed
Generated == "generated"
Said(text) == IF mode.talk THEN text ELSE Generated

\* bot.py:513-540: update_bot_response_time, then schedule_followups
UpdateBotResponseTimeAndSchedule(user_id) ==
    /\ now' = now + 1
    /\ last_bot_response_time' = Put(last_bot_response_time, user_id, now + 1)
    /\ tasks' = tasks \cup
          {[user |-> user_id, type |-> n, armed_at |-> now + 1,
            st |-> "sleeping", stale |-> FALSE, reply |-> Generated] : n \in ToArm(user_id)}
    /\ pending_followups' = Put(pending_followups, user_id,
          [n \in DOMAIN PendingOf(user_id) \cup ToArm(user_id) |->
              IF n \in ToArm(user_id) THEN now + 1 ELSE PendingOf(user_id)[n]])
    /\ sent_followups' =
          IF user_id \in DOMAIN sent_followups THEN sent_followups
          ELSE Put(sent_followups, user_id, {})

\* the turns a step of the bot appends
Talk(cc) == conversation_contexts' = IF mode.talk THEN cc ELSE conversation_contexts

\* ------------------------------------------------------- inbound handlers

HandlerStartMarksLate(user_id, lost) ==
    /\ InFlight(user_id) < mode.handlers
    /\ IF user_id \notin first_message_sent /\ handlers[user_id]["first_wait"] < 2
       THEN /\ first_message_sent' = first_message_sent
            /\ Move(user_id, "none", "first_wait")
            /\ UNCHANGED <<now, last_message_time, tasks, cancelled,
                           pending_followups, sent_followups, period_sends>>
       ELSE /\ now < mode.clock
            /\ UpdateUserActivity(user_id, lost)
            /\ Move(user_id, "none", "typing")
            /\ first_message_sent' = first_message_sent \cup {user_id}
    /\ UNCHANGED <<agentVars, mode, searchVars, command, last_bot_response_time, delivery>>

\* text_handler / photo_handler / voice_handler up to their first await:
\* bot.py:303-321 (140-153, 221-234)
HandlerStart(user_id, lost) ==
    /\ InFlight(user_id) < mode.handlers
    /\ IF user_id \notin first_message_sent
       THEN /\ first_message_sent' = first_message_sent \cup {user_id}
            /\ Move(user_id, "none", "first_wait")
            /\ UNCHANGED <<now, last_message_time, tasks, cancelled,
                           pending_followups, sent_followups, period_sends>>
       ELSE /\ now < mode.clock
            /\ UpdateUserActivity(user_id, lost)
            /\ Move(user_id, "none", "typing")
            /\ UNCHANGED first_message_sent
    /\ UNCHANGED <<agentVars, mode, searchVars, command, last_bot_response_time, delivery>>

\* the 15 second sleep of a first message is over: bot.py:317-321
HandlerWake(user_id, lost) ==
    /\ handlers[user_id]["first_wait"] > 0
    /\ now < mode.clock
    /\ UpdateUserActivity(user_id, lost)
    /\ Move(user_id, "first_wait", "typing")
    /\ UNCHANGED <<agentVars, mode, searchVars, command, first_message_sent, last_bot_response_time, delivery>>

\* send_chat_action is done and process_message runs to its first await:
\* bot.py:324-327, agent.py:426-430
HandlerProcess(user_id) ==
    /\ handlers[user_id]["typing"] > 0
    /\ Talk(add_to_context(conversation_contexts, user_id,
          "user", UserMessage, NoToolCalls, NoId))
    /\ Move(user_id, "typing", "awaiting")
    /\ UNCHANGED <<calls, mode, searchVars, command, now, first_message_sent, last_message_time,
                   last_bot_response_time, pending_followups, sent_followups,
                   tasks, delivery, period_sends, cancelled>>

\* process_message returns its text, the reply is sent, then bot.py:333-335
HandlerReply(user_id, text) ==
    /\ handlers[user_id]["awaiting"] > 0
    /\ now < mode.clock
    /\ Talk(add_to_context(conversation_contexts, user_id,
          "assistant", text, NoToolCalls, NoId))
    /\ UpdateBotResponseTimeAndSchedule(user_id)
    /\ Move(user_id, "awaiting", "none")
    /\ UNCHANGED <<calls, mode, searchVars, command, first_message_sent, last_message_time, delivery,
                   period_sends, cancelled>>

\* an await of the handler raises (bot.py:337-344): the error text is
\* answered, nothing is stamped and nothing is scheduled
HandlerError(user_id) ==
    /\ \/ /\ handlers[user_id]["typing"] > 0
          /\ Move(user_id, "typing", "none")
          /\ UNCHANGED conversation_contexts
       \/ /\ handlers[user_id]["awaiting"] > 0
          /\ Move(user_id, "awaiting", "none")
          /\ \E text \in {Answer, Apology} :
                Talk(add_to_context(conversation_contexts,
                    user_id, "assistant", text, NoToolCalls, NoId))
    /\ UNCHANGED <<calls, mode, searchVars, command, now, first_message_sent, last_message_time,
                   last_bot_response_time, pending_followups, sent_followups,
                   tasks, delivery, period_sends, cancelled>>

\* ---------------------------------------------------------- send_followup

UserRespondedNever(user_id) == FALSE

\* bot.py:549-557: the user sent a message after the bot's last response
UserResponded(user_id) ==
    /\ user_id \in DOMAIN last_bot_response_time
    /\ user_id \in DOMAIN last_message_time
    /\ last_message_time[user_id] > last_bot_response_time[user_id]

AlreadySentNever(user_id, followup_type) == FALSE

\* bot.py:560
AlreadySent(user_id, followup_type) ==
    user_id \in DOMAIN sent_followups /\ followup_type \in sent_followups[user_id]

MarkedAlone(user_id, followup_type) == {followup_type}

\* sent_followups[user_id] after .add(followup_type), bot.py:565-567
Marked(user_id, followup_type) ==
    (IF user_id \in DOMAIN sent_followups THEN sent_followups[user_id] ELSE {})
        \cup {followup_type}

\* the delay of a task is over: bot.py:546-578, agent.py:426-430
FollowupFire(t) ==
    /\ t \in tasks
    /\ t.st = "sleeping"
    /\ ~\E t2 \in tasks : /\ t2.user = t.user /\ t2.st = "sleeping"
                          /\ t2.armed_at <= t.armed_at
                          /\ Delay(t2.type) < Delay(t.type)
    /\ IF UserResponded(t.user) \/ AlreadySent(t.user, t.type)
       THEN /\ tasks' = tasks \ {t}
            /\ UNCHANGED <<conversation_contexts, sent_followups>>
       ELSE /\ sent_followups' = Put(sent_followups, t.user, Marked(t.user, t.type))
            /\ Talk(add_to_context(conversation_contexts,
                  t.user, "user", IdleNote(t.type), NoToolCalls, NoId))
            /\ tasks' = (tasks \ {t}) \cup
                  {[t EXCEPT !.st = "processing",
                             !.stale = At(last_message_time, t.user) > t.armed_at]}
    /\ UNCHANGED <<calls, mode, searchVars, command, now, first_message_sent, last_message_time,
                   last_bot_response_time, pending_followups, handlers, delivery,
                   period_sends, cancelled>>

\* process_message returns the follow-up text: bot.py:578, agent.py:531-563
FollowupGenerated(t, text) ==
    /\ t \in tasks
    /\ t.st = "processing"
    /\ Talk(add_to_context(conversation_contexts, t.user,
          "assistant", text, NoToolCalls, NoId))
    /\ tasks' = (tasks \ {t}) \cup {[t EXCEPT !.st = "sending", !.reply = Said(text)]}
    /\ UNCHANGED <<calls, mode, searchVars, command, now, first_message_sent, last_message_time,
                   last_bot_response_time, pending_followups, sent_followups,
                   handlers, delivery, period_sends, cancelled>>

Delivered(t, text) ==
    [type |-> t.type, user |-> t.user, text |-> text,
     \* the completion failed while the follow-up was generated: agent.py:559-563
     completion_failed |-> t.reply = Apology,
     \* send_message raised for the generated text: bot.py:582, 586
     send_failed |-> text # t.reply,
     \* an inbound event had been recorded since the arming when the delay elapsed
     stale |-> t.stale,
     \* an inbound event is recorded and not yet replied to
     unanswered |-> At(last_message_time, t.user) > At(last_bot_response_time, t.user),
     \* a handler of the user is at work
     busy |-> Busy(t.user)]

\* bot.py:580-602: send_message delivers the text; or it raises and the
\* static phrase is delivered and appended; or that send raises as well
FollowupSend(t, result) ==
    /\ t \in tasks
    /\ t.st = "sending"
    /\ tasks' = tasks \ {t}
    /\ CASE result = "sent" ->
                  /\ delivery' = Delivered(t, t.reply)
                  /\ period_sends' = [period_sends EXCEPT ![t.user][t.type] = @ + 1]
                  /\ UNCHANGED conversation_contexts
             [] result = "fallback" ->
                  /\ delivery' = Delivered(t, Fallback(t.type))
                  /\ period_sends' = [period_sends EXCEPT ![t.user][t.type] = @ + 1]
                  /\ Talk(add_to_context(conversation_contexts,
                        t.user, "assistant", Fallback(t.type), NoToolCalls, NoId))
             [] result = "failed" ->
                  UNCHANGED <<delivery, period_sends, conversation_contexts>>
    /\ UNCHANGED <<calls, mode, searchVars, command, now, first_message_sent, last_message_time,
                   last_bot_response_time, pending_followups, sent_followups,
                   handlers, cancelled>>

InitBot ==
    /\ conversation_contexts = [u \in {} |-> <<>>]
    /\ calls = [c \in AgentCallers |-> IdleFrame]
    /\ InitEngagement
    /\ mode = [talk |-> FALSE, lossy |-> FALSE, handlers |-> MaxHandlers, clock |-> MaxClock]
    /\ NoSearchYet
    /\ command = NoCommand

InitBotLossy ==
    /\ conversation_contexts = [u \in {} |-> <<>>]
    /\ calls = [c \in AgentCallers |-> IdleFrame]
    /\ InitEngagement
    /\ mode = [talk |-> FALSE, lossy |-> TRUE, handlers |-> 1, clock |-> MaxClock]
    /\ NoSearchYet
    /\ command = NoCommand

\* the cancellations that may take no effect
LostChoices(user_id) == IF mode.lossy THEN SUBSET Cancellable(user_id) ELSE {{}}

NextBot ==
    \/ \E u \in BotUsers :
          \/ \E lost \in LostChoices(u) : HandlerStart(u, lost)
          \/ \E lost \in LostChoices(u) : HandlerWake(u, lost)
          \/ HandlerProcess(u)
          \/ \E text \in {Answer, Apology} : HandlerReply(u, text)
          \/ HandlerError(u)
    \/ \E t \in tasks :
          \/ FollowupFire(t)
          \/ \E text \in {Answer, Apology} : FollowupGenerated(t, text)
          \/ \E result \in {"sent", "fallback", "failed"} : FollowupSend(t, result)

\* asyncio: the handlers of one user run as concurrent tasks, and cancel()
\* ends a task at the await it is suspended at
SpecBot == InitBot /\ [][NextBot]_vars

\* the same program, one handler at a time and the turns not followed,
\* when a cancellation may take no effect
SpecBotLossy == InitBotLossy /\ [][NextBot]_vars

\* one handler at a time, the conversations followed
InitFollowup ==
    /\ conversation_contexts = [u \in {} |-> <<>>]
    /\ calls = [c \in AgentCallers |-> IdleFrame]
    /\ InitEngagement
    /\ mode = [talk |-> TRUE, lossy |-> FALSE, handlers |-> 1,
               clock |-> MaxFollowupClock]
    /\ NoSearchYet
    /\ command = NoCommand
SpecFollowup == InitFollowup /\ [][NextBot]_vars

\* one handler at a time, the conversations followed, and time enough for
\* an inbound event after a trigger has fired
InitCancel ==
    /\ conversation_contexts = [u \in {} |-> <<>>]
    /\ calls = [c \in AgentCallers |-> IdleFrame]
    /\ InitEngagement
    /\ mode = [talk |-> TRUE, lossy |-> FALSE, handlers |-> 1,
               clock |-> MaxClock - 1]
    /\ NoSearchYet
    /\ command = NoCommand
\* the handlers and triggers when no send and no reply fails
NextCancel ==
    \/ \E u \in BotUsers :
          \/ HandlerStart(u, {})
          \/ HandlerWake(u, {})
          \/ HandlerProcess(u)
          \/ HandlerReply(u, Answer)
    \/ \E t \in tasks :
          \/ FollowupFire(t)
          \/ \E text \in {Answer, Apology} : FollowupGenerated(t, text)
          \/ \E result \in {"sent", "fallback"} : FollowupSend(t, result)
SpecCancel == InitCancel /\ [][NextCancel]_vars

\* ------------------------------------------------------------- commands

\* the record kept of a handled command: removed is the number of turns
\* clear_context took away, n the number of commands handled so far
Handled(command_name, user_id, removed) ==
    [command |-> command_name, user |-> user_id, removed |-> removed,
     n |-> command.n + 1]

clear_context_all(cc, user_id) == [u \in {} |-> <<>>]

\* clear_context, agent.py:565-568: del self.conversation_contexts[user_id]
clear_context(cc, user_id) ==
    [u \in DOMAIN cc \ {user_id} |-> cc[u]]

\* /start, bot.py:61-84: the welcome text is answered
start_handler(user_id) ==
    /\ command' = Handled("start", user_id, 0)
    /\ UNCHANGED <<agentVars, mode, searchVars, botVars>>

\* /help, bot.py:86-117: the help text is answered
help_handler(user_id) ==
    /\ command' = Handled("help", user_id, 0)
    /\ UNCHANGED <<agentVars, mode, searchVars, botVars>>

clear_handler_cancels(user_id) ==
    /\ conversation_contexts' = clear_context(conversation_contexts, user_id)
    /\ command' = Handled("clear", user_id,
          Len(get_conversation_context(conversation_contexts, user_id)))
    /\ tasks' = tasks \ Cancellable(user_id)
    /\ UNCHANGED <<calls, searchVars, now, first_message_sent, last_message_time,
                   last_bot_response_time, pending_followups, sent_followups,
                   handlers, delivery, period_sends, cancelled, mode>>

\* /clear, bot.py:119-130: clear_context, then the reset text is answered
clear_handler(user_id) ==
    /\ conversation_contexts' = clear_context(conversation_contexts, user_id)
    /\ command' = Handled("clear", user_id,
          Len(get_conversation_context(conversation_contexts, user_id)))
    /\ UNCHANGED <<calls, mode, searchVars, botVars>>

\* the bot with its commands, one handler at a time
InitCommands ==
    /\ conversation_contexts = [u \in {} |-> <<>>]
    /\ calls = [c \in AgentCallers |-> IdleFrame]
    /\ InitEngagement
    /\ mode = [talk |-> FALSE, lossy |-> FALSE, handlers |-> 1, clock |-> MaxClock]
    /\ NoSearchYet
    /\ command = NoCommand
NextCommands ==
    \/ NextBot
    \/ \E u \in BotUsers :
          \/ command.n < MaxCommands /\ start_handler(u)
          \/ command.n < MaxCommands /\ help_handler(u)
          \/ command.n < MaxCommands /\ clear_handler(u)
SpecCommands == InitCommands /\ [][NextCommands]_vars

\* messages answered without tool calls, with /clear arriving at any await
\* of a process_message call
NextClear ==
    \/ \E c \in AgentCallers :
          \/ \E u \in AgentUsers, photo \in BOOLEAN,
                eager \in {"none", "results", "empty", "raise"} :
                ProcessMessageStart(c, u, photo, eager)
          \/ PhotoCompletionFail(c)
          \/ PhotoCompletionText(c)
          \/ LoopCompletionFail(c)
          \/ LoopCompletionText(c)
    \/ \E u \in AgentUsers : command.n < MaxCommands /\ clear_handler(u)
SpecClear == InitAgent /\ [][NextClear]_vars

\* two users at a time, one handler each; the conversations are followed
\* over a shorter time
InitTwoUsers ==
    /\ conversation_contexts = [u \in {} |-> <<>>]
    /\ calls = [c \in AgentCallers |-> IdleFrame]
    /\ now = 0
    /\ first_message_sent = {}
    /\ last_message_time = [u \in {} |-> 0]
    /\ last_bot_response_time = [u \in {} |-> 0]
    /\ pending_followups = [u \in {} |-> <<>>]
    /\ sent_followups = [u \in {} |-> {}]
    /\ tasks = {}
    /\ handlers = [u \in Users |-> [p \in {"first_wait", "typing", "awaiting"} |-> 0]]
    /\ delivery = NoDelivery
    /\ period_sends = [u \in Users |-> [n \in {"first", "second", "third"} |-> 0]]
    /\ cancelled = {}
    /\ mode \in {[talk |-> TRUE, lossy |-> FALSE, handlers |-> 1,
                  clock |-> MaxFollowupClock],
                 [talk |-> FALSE, lossy |-> FALSE, handlers |-> 1,
                  clock |-> MaxClock - 1]}
    /\ NoSearchYet
    /\ command = NoCommand
NextTwoUsers ==
    \/ \E u \in Users :
          \/ \E lost \in LostChoices(u) : HandlerStart(u, lost)
          \/ \E lost \in LostChoices(u) : HandlerWake(u, lost)
          \/ HandlerProcess(u)
          \/ HandlerReply(u, Answer)
          \/ HandlerError(u)
          \/ command.n < MaxCommands /\ clear_handler(u)
    \/ \E t \in tasks :
          \/ FollowupFire(t)
          \/ FollowupGenerated(t, Answer)
          \/ FollowupSend(t, "sent")
SpecTwoUsers == InitTwoUsers /\ [][NextTwoUsers]_vars

\* ------------------------------------------------------------ search_tools

\* an argument that is not supplied is None; a supplied value v is <<v>>
None == <<>>
Some(v) == <<v>>
\* the truth value of an optional number and of an optional string
TruthyNumber(x) == x # None /\ x[1] # 0
TruthyString(x) == x # None /\ x[1] # ""

\* filters of search_products_by_text, search_tools.py:52-58
TextFilters(document_type, min_price, max_price) ==
    (IF TruthyString(document_type)
     THEN <<"type" :> ("$eq" :> document_type[1])>> ELSE <<>>)
    \o (IF TruthyNumber(min_price)
        THEN <<"price" :> ("$gte" :> min_price[1])>> ELSE <<>>)
    \o (IF TruthyNumber(max_price)
        THEN <<"price" :> ("$lte" :> max_price[1])>> ELSE <<>>)

\* filters of search_products_by_photo, search_tools.py:119-123
PhotoFilters(min_price, max_price) ==
    (IF TruthyNumber(min_price)
     THEN <<"price" :> ("$gte" :> min_price[1])>> ELSE <<>>)
    \o (IF TruthyNumber(max_price)
        THEN <<"price" :> ("$lte" :> max_price[1])>> ELSE <<>>)

WhereFilterEmptyAnd(filters) ==
    IF Len(filters) = 1 THEN Some(filters[1]) ELSE Some("$and" :> filters)

WhereFilterAlwaysAnd(filters) ==
    IF filters = <<>> THEN None ELSE Some("$and" :> filters)

\* where_filter, search_tools.py:60-66 and 125-131
WhereFilter(filters) ==
    IF filters = <<>> THEN None
    ELSE IF Len(filters) = 1 THEN Some(filters[1])
    ELSE Some("$and" :> filters)

\* collection.query: at most n_results matches, in the order of the index
Query(n_results) ==
    SubSeq(matches, 1, IF n_results < Len(matches) THEN n_results ELSE Len(matches))

ScoreIsDistance(distance) == distance

\* score = 1 - distance, in hundredths: search_tools.py:84
Score(distance) == 100 - distance

\* the value bouquet_scores[bid] gets from raw match m: search_tools.py:86
Entry(m) ==
    [bid |-> m.bouquet_id, score |-> Score(m.distance),
     meta |-> [bouquet_id |-> m.bouquet_id, id |-> m.id]]

RECURSIVE DedupeKeepFirst(_, _, _)
DedupeKeepFirst(results, i, bouquet_scores) ==
    IF i > Len(results) THEN bouquet_scores
    ELSE IF \E j \in 1..Len(bouquet_scores) :
                bouquet_scores[j].bid = results[i].bouquet_id
         THEN DedupeKeepFirst(results, i + 1, bouquet_scores)
         ELSE DedupeKeepFirst(results, i + 1, Append(bouquet_scores, Entry(results[i])))

\* the loop of search_tools.py:79-86 from raw match i on; bouquet_scores is
\* the dict as the sequence of its items in insertion order
RECURSIVE Dedupe(_, _, _)
Dedupe(results, i, bouquet_scores) ==
    IF i > Len(results) THEN bouquet_scores
    ELSE LET new == Entry(results[i])
             at  == {j \in 1..Len(bouquet_scores) : bouquet_scores[j].bid = new.bid}
         IN  IF at = {}
             THEN Dedupe(results, i + 1, Append(bouquet_scores, new))
             ELSE LET j == CHOOSE j \in at : TRUE
                  IN  IF new.score > bouquet_scores[j].score
                      THEN Dedupe(results, i + 1, [bouquet_scores EXCEPT ![j] = new])
                      ELSE Dedupe(results, i + 1, bouquet_scores)

\* bouquet_scores.values()
Values(bouquet_scores) ==
    [j \in 1..Len(bouquet_scores) |->
        [score |-> bouquet_scores[j].score, meta |-> bouquet_scores[j].meta]]

RECURSIVE SortedLastFirst(_)
SortedLastFirst(values) ==
    IF values = <<>> THEN <<>>
    ELSE LET x    == values[Len(values)]
             done == SortedLastFirst(SubSeq(values, 1, Len(values) - 1))
             n    == Cardinality({j \in 1..Len(done) : done[j].score > x.score})
         IN  SubSeq(done, 1, n) \o <<x>> \o SubSeq(done, n + 1, Len(done))

\* sorted(..., key=score, reverse=True): a stable sort, equal scores keep
\* the order they come in
RECURSIVE Sorted(_)
Sorted(values) ==
    IF values = <<>> THEN <<>>
    ELSE LET x    == values[Len(values)]
             done == Sorted(SubSeq(values, 1, Len(values) - 1))
             n    == Cardinality({j \in 1..Len(done) : done[j].score >= x.score})
         IN  SubSeq(done, 1, n) \o <<x>> \o SubSeq(done, n + 1, Len(done))

SliceAll(seq, k) == seq

\* seq[:k]
Slice(seq, k) ==
    IF k >= 0 THEN SubSeq(seq, 1, IF k < Len(seq) THEN k ELSE Len(seq))
    ELSE SubSeq(seq, 1, IF Len(seq) + k > 0 THEN Len(seq) + k ELSE 0)

\* search_tools.py:78-88 and 143-153
TopBouquets(results, k) == Slice(Sorted(Values(Dedupe(results, 1, <<>>))), k)

TextSearchNoOversampling(document_type, min_price, max_price, k) ==
    [fn |-> "search_products_by_text", document_type |-> document_type,
     min_price |-> min_price, max_price |-> max_price, k |-> k,
     where_filter |-> WhereFilter(TextFilters(document_type, min_price, max_price)),
     n_results |-> k,
     results |-> Query(k),
     top_bouquets |-> TopBouquets(Query(k), k)]

\* search_products_by_text(query_text, document_type, min_price, max_price, k),
\* search_tools.py:32-90: what it asks the index and what it returns
TextSearch(document_type, min_price, max_price, k) ==
    [fn |-> "search_products_by_text", document_type |-> document_type,
     min_price |-> min_price, max_price |-> max_price, k |-> k,
     where_filter |-> WhereFilter(TextFilters(document_type, min_price, max_price)),
     n_results |-> 2 * k,
     results |-> Query(2 * k),
     top_bouquets |-> TopBouquets(Query(2 * k), k)]

\* search_products_by_photo(photo_path, min_price, max_price, k),
\* search_tools.py:96-155
PhotoSearch(min_price, max_price, k) ==
    [fn |-> "search_products_by_photo", document_type |-> None,
     min_price |-> min_price, max_price |-> max_price, k |-> k,
     where_filter |-> WhereFilter(PhotoFilters(min_price, max_price)),
     n_results |-> k * 2,
     results |-> Query(k * 2),
     top_bouquets |-> TopBouquets(Query(k * 2), k)]

\* a call of search_products_by_text
search_products_by_text(document_type, min_price, max_price, k) ==
    /\ search' = TextSearch(document_type, min_price, max_price, k)
    /\ UNCHANGED <<agentVars, botVars, matches, command, embed, sending>>

\* a call of search_products_by_photo
search_products_by_photo(min_price, max_price, k) ==
    /\ search' = PhotoSearch(min_price, max_price, k)
    /\ UNCHANGED <<agentVars, botVars, matches, command, embed, sending>>

\* ------------------------------------------- query_text.py and query_photo.py

\* the dict {} : a filter object without a predicate
EmptyFilter == <<>>

\* where_filter of the standalone queries, query_text.py:21-26 and
\* query_photo.py:25-30: without a predicate it is {} and not None
QueryWhereFilter(filters) ==
    IF filters = <<>> THEN Some(EmptyFilter)
    ELSE IF Len(filters) = 1 THEN Some(filters[1])
    ELSE Some("$and" :> filters)

\* text_query(query_text, document_type, min_price, max_price, k),
\* query_text.py:9-46; its filters are built as in search_products_by_text
text_query(document_type, min_price, max_price, k) ==
    /\ search' = [fn |-> "text_query", document_type |-> document_type,
                  min_price |-> min_price, max_price |-> max_price, k |-> k,
                  where_filter |->
                      QueryWhereFilter(TextFilters(document_type, min_price, max_price)),
                  n_results |-> 2 * k,
                  results |-> Query(2 * k),
                  top_bouquets |-> TopBouquets(Query(2 * k), k)]
    /\ UNCHANGED <<agentVars, botVars, matches, command, embed, sending>>

\* photo_query(image_url, min_price, max_price, k), query_photo.py:13-49
photo_query(min_price, max_price, k) ==
    /\ search' = [fn |-> "photo_query", document_type |-> None,
                  min_price |-> min_price, max_price |-> max_price, k |-> k,
                  where_filter |->
                      QueryWhereFilter(PhotoFilters(min_price, max_price)),
                  n_results |-> k * 2,
                  results |-> Query(k * 2),
                  top_bouquets |-> TopBouquets(Query(k * 2), k)]
    /\ UNCHANGED <<agentVars, botVars, matches, command, embed, sending>>

\* ----------------------------------------- the searches of _execute_tool_call

\* function_args.get(key) and function_args.get(key, default)
GetOptional(function_args, key) ==
    IF key \in DOMAIN function_args THEN Some(function_args[key]) ELSE None
Get(function_args, key, default) ==
    IF key \in DOMAIN function_args THEN function_args[key] ELSE default

\* format_search_results_for_ai, agent.py:326-348: one line per product
format_search_results_for_ai(results) ==
    IF results = <<>> THEN NoBouquetsFound ELSE SearchResults

\* _execute_tool_call for a search that raises nothing: agent.py:358-371
\* and, with a photo attached, 383-394
ExecuteSearchToolCall(user_id, function_name, function_args) ==
    LET found == IF function_name = "search_products_by_text"
                 THEN TextSearch(GetOptional(function_args, "document_type"),
                                 GetOptional(function_args, "min_price"),
                                 GetOptional(function_args, "max_price"),
                                 Get(function_args, "k", DefaultK))
                 ELSE PhotoSearch(GetOptional(function_args, "min_price"),
                                  GetOptional(function_args, "max_price"),
                                  Get(function_args, "k", DefaultK))
        ctx == get_conversation_context(conversation_contexts, user_id)
    IN  /\ function_name \in {"search_products_by_text", "search_products_by_photo"}
        /\ Len(ctx) < MaxHistory
        /\ search' = found
        /\ conversation_contexts' = add_to_context(conversation_contexts, user_id,
              "tool", format_search_results_for_ai(found.top_bouquets),
              NoToolCalls, Len(ctx) + 1)
        /\ UNCHANGED <<calls, botVars, matches, command, embed, sending>>

\* ------------------------------------------------- inputs of the searches

\* distances in hundredths
Distances == {5, 10, 30}
\* products are numbered in the order they first appear
FirstSeenOrder(b, n) ==
    \A i \in 1..n : b[i] = 1 \/ \E j \in 1..(i - 1) : b[j] = b[i] - 1
\* the lists of n raw matches: every document id once, any product, any
\* distance
RawLists(n) ==
    {[i \in 1..n |-> [id |-> i, bouquet_id |-> b[i], distance |-> d[i]]] :
        b \in {c \in [1..n -> 1..n] : FirstSeenOrder(c, n)},
        d \in [1..n -> Distances]}
\* n products with one document each, nearest first
Catalog(n) == [i \in 1..n |-> [id |-> i, bouquet_id |-> i, distance |-> 5 * i]]

DocumentTypes == {None, Some("text"), Some("photo")}
Prices == {None, Some(0), Some(100000), Some(400000)}
\* the arguments a tool call may carry
KArguments == {<<>>} \cup {"k" :> k : k \in 1..MaxProducts}
MinArguments == {<<>>, "min_price" :> 100000}
MaxArguments == {<<>>, "max_price" :> 400000}
FunctionArguments ==
    {ka @@ mn @@ mx : ka \in KArguments, mn \in MinArguments, mx \in MaxArguments}

InitIdle ==
    /\ conversation_contexts = [u \in {} |-> <<>>]
    /\ calls = [c \in AgentCallers |-> IdleFrame]
    /\ InitEngagement
    /\ mode = [talk |-> TRUE, lossy |-> FALSE, handlers |-> 1, clock |-> MaxClock]
    /\ search = NoSearch
    /\ command = NoCommand
    /\ embed = NoEmbed
    /\ sending = NoSending

\* the filters: every combination of arguments
InitFilter ==
    /\ InitIdle
    /\ \E n \in 0..1 : matches \in RawLists(n)
\* a search reads nothing of the search before it, so one search from every
\* initial state reaches every state
\* a search reads nothing of the search before it: one search from every
\* initial state reaches every state
NextFilter ==
    \/ \E document_type \in DocumentTypes, min_price \in Prices, max_price \in Prices :
          /\ search = NoSearch
          /\ search_products_by_text(document_type, min_price, max_price, DefaultK)
    \/ \E min_price \in Prices, max_price \in Prices :
          /\ search = NoSearch
          /\ search_products_by_photo(min_price, max_price, DefaultK)
SpecFilter == InitFilter /\ [][NextFilter]_vars

\* the four query entry points, every combination of arguments
NextQuery ==
    \/ NextFilter
    \/ \E document_type \in DocumentTypes, min_price \in Prices, max_price \in Prices :
          /\ search = NoSearch
          /\ text_query(document_type, min_price, max_price, DefaultK)
    \/ \E min_price \in Prices, max_price \in Prices :
          /\ search = NoSearch
          /\ photo_query(min_price, max_price, DefaultK)
SpecQuery == InitFilter /\ [][NextQuery]_vars

\* dedupe and rank: every list of raw matches, every k
InitRank ==
    /\ InitIdle
    /\ \E n \in 0..MaxRaw : matches \in RawLists(n)
NextRank ==
    \E k \in 1..MaxK :
        \/ search = NoSearch /\ search_products_by_text(None, None, None, k)
        \/ search = NoSearch /\ search_products_by_photo(None, None, k)
SpecRank == InitRank /\ [][NextRank]_vars

\* embed.py: every product is embedded as the documents text_<id> and
\* photo_<id>, upserted under these keys, so the index holds at most two
\* documents of a product
AtMostTwoDocuments(b, n) ==
    \A i \in 1..n : Cardinality({j \in 1..n : b[j] = b[i]}) <= 2
\* collection.query returns the nearest documents first
NearestFirst(d, n) == \A i \in 1..(n - 1) : d[i] <= d[i + 1]
\* what the index holds for a query: n documents that match the filter
IndexLists(n) ==
    {[i \in 1..n |-> [id |-> i, bouquet_id |-> b[i], distance |-> d[i]]] :
        b \in {c \in [1..n -> 1..n] : FirstSeenOrder(c, n) /\ AtMostTwoDocuments(c, n)},
        d \in {e \in [1..n -> Distances] : NearestFirst(e, n)}}

\* a search over an index that may hold more documents than it is asked for
InitIndex ==
    /\ InitIdle
    /\ \E n \in 0..MaxDocs : matches \in IndexLists(n)
NextIndex ==
    \E k \in 1..MaxK :
        \/ search = NoSearch /\ search_products_by_text(None, None, None, k)
        \/ search = NoSearch /\ search_products_by_photo(None, None, k)
SpecIndex == InitIndex /\ [][NextIndex]_vars

\* ------------------------------------------------------------------ embed.py

\* the entries of bouquets.json: deleted_at is set or None, photo_urls is
\* empty or not; two entries may carry the same id
BouquetIds == {1, 2}
Bouquets == [id : BouquetIds, deleted_at : BOOLEAN, photo_urls : BOOLEAN]
BouquetLists == UNION {[1..n -> Bouquets] : n \in 0..MaxBouquets}

UpsertAdds(collection, doc) == Append(collection, doc)

\* collection.upsert(ids=[doc_id], ...): the document of that id is replaced,
\* or the document is added when the id is new
Upsert(collection, doc) ==
    IF \E j \in 1..Len(collection) : collection[j].id = doc.id
    THEN [j \in 1..Len(collection) |->
            IF collection[j].id = doc.id THEN doc ELSE collection[j]]
    ELSE Append(collection, doc)

\* doc_id = f"text_{bouquet['id']}" with its metadata, app/embed.py:46-58
TextDocument(bouquet) ==
    [id |-> <<"text", bouquet.id>>, bouquet_id |-> bouquet.id, type |-> "text"]
\* doc_id = f"photo_{bouquet['id']}" with its metadata, app/embed.py:75-87
PhotoDocument(bouquet) ==
    [id |-> <<"photo", bouquet.id>>, bouquet_id |-> bouquet.id, type |-> "photo"]

\* embed_text: src/embed.py:15-41 reads bouquet['photo_urls'][0] for the
\* metadata and raises on an empty list; app/embed.py:38-65 does not
embed_text_raises(script, bouquet) == script = "src/embed.py" /\ ~bouquet.photo_urls

\* one round of the batch loop, app/embed.py:98-102: a deleted entry is
\* skipped; embed_text upserts; embed_photo returns without photo_urls,
\* else fetches the image (which may raise) and upserts. An exception ends
\* the script. upserted holds what the round has written.
EmbedBouquet(fetch) ==
    LET b == embed.bouquets[embed.i]
        with_text == Upsert(embed.collection, TextDocument(b))
    IN  /\ embed.pc = "running"
        /\ embed.i <= Len(embed.bouquets)
        /\ embed' =
              IF b.deleted_at
              THEN [embed EXCEPT !.i = @ + 1, !.upserted = <<>>]
              ELSE IF embed_text_raises(embed.script, b)
              THEN [embed EXCEPT !.i = @ + 1, !.upserted = <<>>, !.pc = "raised"]
              ELSE IF ~b.photo_urls
              THEN [embed EXCEPT !.i = @ + 1, !.collection = with_text,
                                 !.upserted = <<TextDocument(b).id>>]
              ELSE IF fetch = "raise"
              THEN [embed EXCEPT !.i = @ + 1, !.collection = with_text,
                                 !.upserted = <<TextDocument(b).id>>, !.pc = "raised"]
              ELSE [embed EXCEPT !.i = @ + 1,
                                 !.collection = Upsert(with_text, PhotoDocument(b)),
                                 !.upserted = <<TextDocument(b).id, PhotoDocument(b).id>>]
        /\ UNCHANGED <<agentVars, botVars, matches, search, command, sending>>

\* the loop is over
EmbedDone ==
    /\ embed.pc = "running"
    /\ embed.i > Len(embed.bouquets)
    /\ embed' = [embed EXCEPT !.pc = "done", !.upserted = <<>>]
    /\ UNCHANGED <<agentVars, botVars, matches, search, command, sending>>

\* the script is run again on the persistent collection
\* (chromadb.PersistentClient, app/embed.py:11-12); entries of
\* bouquets.json may have got their deleted_at set in between
EmbedAgain(bouquets) ==
    /\ embed.pc \in {"done", "raised"}
    /\ Len(bouquets) = Len(embed.bouquets)
    /\ \A j \in 1..Len(bouquets) :
          /\ bouquets[j].id = embed.bouquets[j].id
          /\ bouquets[j].photo_urls = embed.bouquets[j].photo_urls
          /\ embed.bouquets[j].deleted_at => bouquets[j].deleted_at
    /\ embed' = [embed EXCEPT !.pc = "running", !.i = 1, !.bouquets = bouquets,
                              !.upserted = <<>>, !.run = 2]
    /\ UNCHANGED <<agentVars, botVars, matches, search, command, sending>>

InitEmbed ==
    /\ conversation_contexts = [u \in {} |-> <<>>]
    /\ calls = [c \in AgentCallers |-> IdleFrame]
    /\ InitEngagement
    /\ mode = [talk |-> TRUE, lossy |-> FALSE, handlers |-> 1, clock |-> MaxClock]
    /\ matches = <<>>
    /\ search = NoSearch
    /\ command = NoCommand
    /\ sending = NoSending
    /\ \E bouquets \in BouquetLists, script \in {"src/app/embed.py", "src/embed.py"} :
          embed = [pc |-> "running", script |-> script, bouquets |-> bouquets, i |-> 1,
                   collection |-> <<>>, upserted |-> <<>>, run |-> 1]
NextEmbed ==
    \/ \E fetch \in {"ok", "raise"} : EmbedBouquet(fetch)
    \/ EmbedDone
    \/ \E bouquets \in BouquetLists : EmbedAgain(bouquets)
SpecEmbed == InitEmbed /\ [][NextEmbed]_vars

\* ------------------------------------------------ send_response_with_photos

\* the send steps answer or raise; a step that raises has delivered nothing
SendOutcomes == {"ok", "raise"}

SendsSoFar == IF sending.pc = "idle" THEN 0 ELSE sending.n

\* the step of the call moves to pc; copies counts the delivered messages
\* that carry the response text
SendingStep(pc, delivered) ==
    /\ sending' = [sending EXCEPT !.pc = pc,
                                  !.copies = @ + (IF delivered THEN 1 ELSE 0)]
    /\ UNCHANGED <<agentVars, botVars, matches, search, command, embed>>

\* bot.py:387-425: the payment URL and the photo URLs are extracted from
\* the response; photo_urls is the number of valid photo URLs
send_response_with_photos(photo_urls, payment_url) ==
    /\ sending.pc \in {"idle", "done", "raised"}
    /\ SendsSoFar < MaxSends
    /\ sending' = [pc |-> IF photo_urls = 0 THEN "html"
                          ELSE IF photo_urls = 1 THEN "photo" ELSE "media_group",
                   photo_urls |-> photo_urls, payment_url |-> payment_url,
                   copies |-> 0, n |-> SendsSoFar + 1]
    /\ UNCHANGED <<agentVars, botVars, matches, search, command, embed>>

\* bot.py:428-433: one photo, the response is its caption
answer_photo(outcome) ==
    /\ sending.pc = "photo"
    /\ IF outcome = "ok" THEN SendingStep("done", TRUE) ELSE SendingStep("html", FALSE)

\* bot.py:436-450: several photos, the response is the caption of the first
answer_media_group(outcome) ==
    /\ sending.pc = "media_group"
    /\ IF outcome = "ok"
       THEN SendingStep(IF sending.payment_url THEN "button" ELSE "done", TRUE)
       ELSE SendingStep("html", FALSE)

\* bot.py:453-457: the payment button, sent after the media group inside
\* the same try block
answer_payment_button(outcome) ==
    /\ sending.pc = "button"
    /\ IF outcome = "ok" THEN SendingStep("done", FALSE) ELSE SendingStep("html", FALSE)

\* bot.py:461-465 and 474-475: the response as HTML text
answer_html(outcome) ==
    /\ sending.pc = "html"
    /\ IF outcome = "ok" THEN SendingStep("done", TRUE) ELSE SendingStep("plain", FALSE)

\* bot.py:466-470 and 476-480: the response as plain text; an exception
\* here reaches the outer handler
answer_plain(outcome) ==
    /\ sending.pc = "plain"
    /\ IF outcome = "ok" THEN SendingStep("done", TRUE)
       ELSE SendingStep("last_html", FALSE)

\* bot.py:482-488: the last resort, HTML text again
last_resort_html(outcome) ==
    /\ sending.pc = "last_html"
    /\ IF outcome = "ok" THEN SendingStep("done", TRUE)
       ELSE SendingStep("last_plain", FALSE)

\* bot.py:489-495: plain text again; an exception here leaves the function
last_resort_plain(outcome) ==
    /\ sending.pc = "last_plain"
    /\ IF outcome = "ok" THEN SendingStep("done", TRUE)
       ELSE SendingStep("raised", FALSE)

\* no response has been sent yet
InitSend ==
    /\ InitIdle
    /\ matches = <<>>
NextSend ==
    \/ \E photo_urls \in 0..MaxPhotos, payment_url \in BOOLEAN :
          send_response_with_photos(photo_urls, payment_url)
    \/ \E outcome \in SendOutcomes :
          \/ answer_photo(outcome)
          \/ answer_media_group(outcome)
          \/ answer_payment_button(outcome)
          \/ answer_html(outcome)
          \/ answer_plain(outcome)
          \/ last_resort_html(outcome)
          \/ last_resort_plain(outcome)
SpecSend == InitSend /\ [][NextSend]_vars

\* the searches the model asks for through tool calls
InitDispatch ==
    /\ InitIdle
    /\ matches \in {Catalog(n) : n \in 0..MaxProducts}
NextDispatch ==
    \E function_name \in {"search_products_by_text", "search_products_by_photo"},
       function_args \in FunctionArguments :
        ExecuteSearchToolCall(1, function_name, function_args)
SpecDispatch == InitDispatch /\ [][NextDispatch]_vars

\* ------------------------------------------------------------- properties

Active(c) == calls[c].pc \in {"photo_completion", "loop"}
Returned(c) == calls[c].pc = "done"
History(c) == get_conversation_context(conversation_contexts, calls[c].user_id)
\* the turns the call of c has appended so far
Block(c) == SubSeq(History(c), calls[c].base + 1, Len(History(c)))
IsApologyTurn(t) ==
    t.role = "assistant" /\ t.content = Apology /\ t.tool_calls = NoToolCalls

\* the tool turns that directly follow turn i
ToolRun(ctx, i) ==
    {j \in (i + 1)..Len(ctx) : \A m \in (i + 1)..j : ctx[m].role = "tool"}
\* every assistant turn with requests is followed by one tool turn per id
WellFormed(ctx) ==
    \A i \in 1..Len(ctx) :
        (ctx[i].role = "assistant" /\ ctx[i].tool_calls # NoToolCalls) =>
            \A k \in 1..Len(ctx[i].tool_calls) :
                Cardinality({j \in ToolRun(ctx, i) :
                    ctx[j].tool_call_id = ctx[i].tool_calls[k].id}) = 1

\* C1: every process_message call terminates and returns text; when every
\* completion with tools requested tool calls and nothing raised, the text
\* is that of the single final completion made without tools.
C1_TerminatesWithText ==
    /\ [](\A c \in AgentCallers : Returned(c) => calls[c].ret \in TextStrings)
    /\ [](\A c \in AgentCallers :
            (Returned(c) /\ calls[c].all_tools /\ ~calls[c].aborted) =>
                /\ calls[c].plain_requests = 1
                /\ calls[c].ret = FinalAnswer)
    /\ \A c \in AgentCallers : Active(c) ~> Returned(c)

C1_Witness ==
    \E c \in AgentCallers :
        /\ Returned(c) /\ calls[c].all_tools /\ ~calls[c].aborted
        /\ calls[c].tool_requests >= max_iterations
        /\ calls[c].plain_requests = 1
        /\ calls[c].ret = FinalAnswer

\* C2 (as claimed): one call makes at most max_iterations completion
\* requests with tools and at most one without, with or without a photo.
C2_AtMostSixRequests ==
    \A c \in AgentCallers :
        /\ calls[c].tool_requests <= max_iterations
        /\ calls[c].plain_requests <= 1
        /\ calls[c].tool_requests + calls[c].plain_requests <= max_iterations + 1

\* C2 (amended): at most max_iterations requests with tools for a text-only
\* message and one more (the eager photo pass) for a message with a photo;
\* at most one request without tools, and it is the call's last request.
C2_RequestBound ==
    \A c \in AgentCallers :
        /\ calls[c].tool_requests
              <= max_iterations + (IF calls[c].photo_path THEN 1 ELSE 0)
        /\ calls[c].plain_requests <= 1
        /\ calls[c].plain_requests = 1 => Returned(c)

C2_Witness ==
    \E c \in AgentCallers :
        /\ calls[c].photo_path
        /\ calls[c].tool_requests = max_iterations + 1
        /\ calls[c].plain_requests = 1

\* C3: once an inbound event of a user is recorded, no trigger armed before
\* it is left to run, and no re-engagement message comes from a trigger whose
\* delay elapsed after an inbound event that followed its arming.
C3_InboundSilencesTriggers ==
    /\ \A t \in tasks : t.armed_at > At(last_message_time, t.user)
    /\ delivery # NoDelivery => ~delivery.stale

\* the three triggers were asleep when the inbound event was recorded
C3_Witness ==
    /\ Cardinality(cancelled) = 3
    /\ \A t \in cancelled : t.st = "sleeping"
    /\ {t.type : t \in cancelled} = TriggerNames

\* C4: between two consecutive inbound events of a user, each trigger name
\* produces at most one re-engagement message, also when a timer of that
\* name is armed again.
C4_OncePerIdlePeriod ==
    \A u \in BotUsers : \A n \in TriggerNames : period_sends[u][n] <= 1

\* a message of the name went out and a timer of the name is armed again
\* within the same idle period
C4_Witness ==
    \E t \in tasks :
        /\ period_sends[t.user][t.type] = 1
        /\ t.st = "sleeping"
        /\ t.armed_at > At(last_message_time, t.user)

C6_DeliveredOnlyWhenIdle ==
    delivery # NoDelivery => ~delivery.busy /\ ~delivery.unanswered

\* C7: no dispatch raises to the loop, and every dispatch appends exactly
\* one tool turn carrying the call's id.
C7_DispatchNeverRaises ==
    \A c \in AgentCallers :
        /\ ~calls[c].tool_raised
        /\ calls[c].n_tool_turns = calls[c].n_dispatch

\* C8: in a call without a photo, every requested search_products_by_photo
\* call gets the tool turn 'Error: No photo provided for photo search' with
\* its id, and its dispatch raises nothing.
C8_NoPhotoErrorTurn ==
    \A c \in AgentCallers :
        (calls[c].pc \in {"loop", "done"} /\ ~calls[c].photo_path) =>
            \A i \in (calls[c].base + 1)..Len(History(c)) :
                \A k \in 1..Len(History(c)[i].tool_calls) :
                    History(c)[i].tool_calls[k].name = "search_products_by_photo" =>
                        \E j \in ToolRun(History(c), i) :
                            /\ History(c)[j].tool_call_id = History(c)[i].tool_calls[k].id
                            /\ History(c)[j].content = ErrNoPhoto

C10_WellFormedAfterCall ==
    \A c \in AgentCallers : Returned(c) => WellFormed(History(c))

\* --------------------------------------------------- properties of the searches

Searched == search.fn # "none"
\* the product ids among the raw matches of the last search
Products == {search.results[i].bouquet_id : i \in 1..Len(search.results)}
Occurrences(b) == {i \in 1..Len(search.results) : search.results[i].bouquet_id = b}
MaxOf(S) == CHOOSE x \in S : \A y \in S : y <= x
\* the largest 1 - distance (in hundredths) over the occurrences of product b
BestScore(b) == MaxOf({100 - search.results[i].distance : i \in Occurrences(b)})
\* the places of product b in the ranked output
Places(b) ==
    {j \in 1..Len(search.top_bouquets) : search.top_bouquets[j].meta.bouquet_id = b}
\* product b occurs several times, with differing distances
Repeated(b) ==
    \E i \in Occurrences(b), j \in Occurrences(b) :
        search.results[i].distance # search.results[j].distance

\* C11 (as claimed): a product that occurs several times with differing
\* distances is in the ranked output exactly once, with the largest
\* 1 - distance of its occurrences as its score.
C11_OnceWithBestScore ==
    Searched =>
        \A b \in Products :
            Repeated(b) =>
                /\ Cardinality(Places(b)) = 1
                /\ \A j \in Places(b) : search.top_bouquets[j].score = BestScore(b)

\* C11 (amended): such a product is in the ranked output at most once, and
\* exactly once when fewer than k other products have a best score at least
\* as large; where it is present its score is the largest 1 - distance of
\* its occurrences.
C11_AtMostOnceWithBestScore ==
    Searched =>
        \A b \in Products :
            Repeated(b) =>
                /\ Cardinality(Places(b)) <= 1
                /\ Cardinality({c \in Products \ {b} : BestScore(c) >= BestScore(b)})
                        < search.k
                      => Cardinality(Places(b)) = 1
                /\ \A j \in Places(b) : search.top_bouquets[j].score = BestScore(b)

\* a repeated product whose better occurrence comes later is ranked once,
\* with the score of that occurrence
C11_Witness ==
    /\ Searched
    /\ \E b \in Products :
          /\ Cardinality(Occurrences(b)) >= 2
          /\ \E i \in Occurrences(b), j \in Occurrences(b) :
                i < j /\ search.results[j].distance < search.results[i].distance
          /\ Cardinality(Places(b)) = 1
          /\ Cardinality(Products) >= 2

\* every order the raw matches of the last search can be presented in
Orders ==
    {[i \in 1..Len(search.results) |-> search.results[f[i]]] :
        f \in Permutations(1..Len(search.results))}

\* C12 (as claimed): for fixed raw matches and k, every order of the raw
\* matches gives the same ranked sequence.
C12_SameForEveryOrder ==
    Searched => \A o \in Orders : TopBouquets(o, search.k) = search.top_bouquets

\* no two products share their best score, and no product reaches its best
\* score with two documents
NoTies ==
    /\ \A b \in Products, c \in Products : b # c => BestScore(b) # BestScore(c)
    /\ \A b \in Products :
          Cardinality({i \in Occurrences(b) :
              100 - search.results[i].distance = BestScore(b)}) = 1

\* C12 (amended): when no two products share their best score and no
\* product reaches its best score with two documents, every order of the raw
\* matches gives the same ranked sequence.
C12_SameForEveryOrderWithoutTies ==
    (Searched /\ NoTies) =>
        \A o \in Orders : TopBouquets(o, search.k) = search.top_bouquets

\* three raw matches of two products, without ties, cut to fewer entries
C12_Witness ==
    /\ Searched /\ NoTies
    /\ Len(search.results) >= 3
    /\ Cardinality(Products) >= 2
    /\ Len(search.top_bouquets) >= 2

\* C13: the ranked output has at most k entries, and exactly d entries when
\* the raw matches hold d < k distinct products.
C13_AtMostK ==
    Searched =>
        /\ Len(search.top_bouquets) <= search.k
        /\ Cardinality(Products) < search.k =>
              Len(search.top_bouquets) = Cardinality(Products)

\* more raw matches than k, fewer products than k
C13_Witness ==
    /\ Searched
    /\ Len(search.results) > search.k
    /\ Cardinality(Products) < search.k
    /\ Len(search.top_bouquets) = Cardinality(Products)

\* the predicates of a filter, in the order the index is given them
Predicates(where_filter) ==
    IF where_filter = None THEN <<>>
    ELSE IF "$and" \in DOMAIN where_filter[1] THEN where_filter[1]["$and"]
    ELSE <<where_filter[1]>>
IsAnd(where_filter) == where_filter # None /\ "$and" \in DOMAIN where_filter[1]
\* 1 for type equality, 2 for price >= min_price, 3 for price <= max_price
Kind(p) ==
    IF "type" \in DOMAIN p THEN 1 ELSE IF "$gte" \in DOMAIN p["price"] THEN 2 ELSE 3
\* the argument of the last search a predicate is built from
Argument(p) ==
    IF Kind(p) = 1 THEN Some(p["type"]["$eq"])
    ELSE IF Kind(p) = 2 THEN Some(p["price"]["$gte"])
    ELSE Some(p["price"]["$lte"])
Supplied(p) ==
    IF Kind(p) = 1 THEN search.document_type
    ELSE IF Kind(p) = 2 THEN search.min_price
    ELSE search.max_price
NoArguments ==
    search.document_type = None /\ search.min_price = None /\ search.max_price = None

\* C14: a text search without document_type, min_price and max_price, and a
\* photo search without price bounds, query the index with where = None.
C14_NoArgumentsNoFilter ==
    (Searched /\ NoArguments) => search.where_filter = None

C14_Witness ==
    /\ search.fn = "search_products_by_photo"
    /\ NoArguments
    /\ search.where_filter = None

\* C15: a filter with one predicate is that predicate, not wrapped in $and;
\* a filter with two or more is $and over the predicates in the order type
\* equality, price >= min_price, price <= max_price, each carrying the
\* argument it is built from; min_price = 100000 alone gives the single
\* predicate, with max_price = 400000 the $and of the two.
C15_FilterShape ==
    Searched =>
        LET w == search.where_filter
            ps == Predicates(w)
        IN  /\ IsAnd(w) => Len(ps) >= 2
            /\ \A i \in 1..Len(ps) : Argument(ps[i]) = Supplied(ps[i])
            /\ \A i \in 1..Len(ps), j \in 1..Len(ps) :
                  i < j => Kind(ps[i]) < Kind(ps[j])
            /\ (/\ search.document_type = None
                /\ search.min_price = Some(100000)
                /\ search.max_price = None)
                  => w = Some("price" :> ("$gte" :> 100000))
            /\ (/\ search.document_type = None
                /\ search.min_price = Some(100000)
                /\ search.max_price = Some(400000))
                  => w = Some("$and" :> << "price" :> ("$gte" :> 100000),
                                           "price" :> ("$lte" :> 400000) >>)

\* a text search with the three arguments: $and over three predicates
C15_Witness ==
    /\ search.fn = "search_products_by_text"
    /\ search.document_type = Some("photo")
    /\ search.min_price = Some(100000)
    /\ search.max_price = Some(400000)
    /\ IsAnd(search.where_filter)
    /\ Len(Predicates(search.where_filter)) = 3

\* the predicates for the arguments the caller supplied
ExpectedPredicates ==
    (IF search.document_type # None
     THEN << "type" :> ("$eq" :> search.document_type[1]) >> ELSE <<>>)
    \o (IF search.min_price # None
        THEN << "price" :> ("$gte" :> search.min_price[1]) >> ELSE <<>>)
    \o (IF search.max_price # None
        THEN << "price" :> ("$lte" :> search.max_price[1]) >> ELSE <<>>)

\* C16 (as claimed): the filter has one predicate for each argument the
\* caller supplies, whatever its value, and none for the others.
C16_OnePredicatePerSuppliedArgument ==
    Searched => Predicates(search.where_filter) = ExpectedPredicates

\* the most products the tool description allows a search to ask for
SchemaMaxK == 3

\* C17 (as claimed): a search dispatched for a tool call returns at most 3
\* products, whatever k the arguments carry and when they carry none.
C17_AtMostThreeProducts ==
    Searched => Len(search.top_bouquets) <= SchemaMaxK

\* ------------------------------------- properties of follow-ups and commands

\* C18 (as claimed): when the completion service fails while a follow-up is
\* generated, or the delivery of the generated follow-up fails, the user is
\* sent the static phrase of the trigger's name and the phrase is appended
\* to the user's history as an assistant turn.
C18_FailureFallsBack ==
    (delivery # NoDelivery /\ (delivery.completion_failed \/ delivery.send_failed)) =>
        /\ delivery.text = Fallback(delivery.type)
        /\ \E i \in 1..Len(get_conversation_context(conversation_contexts, delivery.user)) :
              LET turn == get_conversation_context(conversation_contexts, delivery.user)[i]
              IN  turn.role = "assistant" /\ turn.content = Fallback(delivery.type)

\* a step that starts the reply path of an inbound event of the user: a
\* message handler passes update_user_activity, or a command is answered
InboundHandled(user_id) ==
    \/ handlers'[user_id]["typing"] > handlers[user_id]["typing"]
    \/ command' # command /\ command'.user = user_id
\* the inbound event is recorded, no timer of the user is pending, the fired
\* set is empty
IdlePeriodReset(user_id) ==
    /\ user_id \in DOMAIN last_message_time'
    /\ last_message_time'[user_id] = now'
    /\ ~\E t \in tasks' : t.user = user_id /\ t.st = "sleeping"
    /\ user_id \in DOMAIN pending_followups' => pending_followups'[user_id] = <<>>
    /\ user_id \in DOMAIN sent_followups' => sent_followups'[user_id] = {}
MessageHandled(user_id) ==
    handlers'[user_id]["typing"] > handlers[user_id]["typing"]
MessageResetsIdlePeriod ==
    [][\A u \in BotUsers : MessageHandled(u) => IdlePeriodReset(u)]_vars

\* C19 (as claimed): every inbound event the bot handles, a message or one of
\* the commands /start, /help and /clear, records last_message_time = now,
\* cancels the pending timers of the user and empties sent_followups, before
\* a reply to it is sent.
C19_InboundResetsIdlePeriod ==
    [][\A u \in BotUsers : InboundHandled(u) => IdlePeriodReset(u)]_vars

\* the history of the user before and after a step
Before(user_id) == get_conversation_context(conversation_contexts, user_id)
After(user_id) == get_conversation_context(conversation_contexts', user_id)
ClearStep(user_id) ==
    command' # command /\ command'.command = "clear" /\ command'.user = user_id

\* C20 (as claimed): clear_context leaves no turn of the user whatever the
\* history held, is idempotent and changes nothing for a user without
\* history; and a history that starts after it starts with the user turn of
\* a process_message call.
C20_ClearThenFreshHistory ==
    [][\A u \in AgentUsers :
          LET cc == clear_context(conversation_contexts, u)
          IN  /\ get_conversation_context(cc, u) = <<>>
              /\ clear_context(cc, u) = cc
              /\ u \notin DOMAIN conversation_contexts => cc = conversation_contexts
              /\ ClearStep(u) => After(u) = <<>>
              /\ (Before(u) = <<>> /\ After(u) # <<>>) =>
                    /\ After(u)[1].role = "user"
                    /\ After(u)[1].content = UserMessage]_vars

\* what holds of clear_context without the last part
ClearEmptiesHistory ==
    [][\A u \in AgentUsers :
          LET cc == clear_context(conversation_contexts, u)
          IN  /\ get_conversation_context(cc, u) = <<>>
              /\ clear_context(cc, u) = cc
              /\ u \notin DOMAIN conversation_contexts => cc = conversation_contexts
              /\ ClearStep(u) => After(u) = <<>>]_vars

\* ------------------------------------------- properties of the second part

\* the places of the turns a call has appended lie in First(c)..calls[c].last
Started(c) == calls[c].pc # "idle"
First(c) == calls[c].base + 1

\* C21 (as claimed): for one user, no turn of another process_message
\* invocation lies between the first and the last turn of an invocation.
C21_BlocksContiguous ==
    \A c1 \in DOMAIN calls, c2 \in DOMAIN calls :
        (/\ c1 # c2
         /\ Started(c1) /\ Started(c2)
         /\ calls[c1].user_id = calls[c2].user_id)
        => ~\E p \in First(c2)..calls[c2].last :
               First(c1) < p /\ p < calls[c1].last

\* a message handler of the user ends in this step: it has sent its reply,
\* the answer of process_message or the error text of the handler
HandlerReplied(user_id) ==
    handlers'[user_id]["typing"] + handlers'[user_id]["awaiting"]
        < handlers[user_id]["typing"] + handlers[user_id]["awaiting"]

\* C22 (as claimed): when a message handler has sent its reply, the answer
\* or the error apology, last_bot_response_time of the user is the time of
\* the reply and a timer is pending for each of first, second and third.
C22_ReplyStampsAndArms ==
    [][\A u \in BotUsers :
          HandlerReplied(u) =>
              /\ u \in DOMAIN last_bot_response_time'
              /\ last_bot_response_time'[u] = now'
              /\ u \in DOMAIN pending_followups'
              /\ DOMAIN pending_followups'[u] = TriggerNames]_vars

\* the places of the turns a call has appended so far
TurnsOf(c) == First(c)..calls[c].last

\* the correlation ids of the requests an assistant turn carries
RequestIds(turn) == {turn.tool_calls[i].id : i \in 1..Len(turn.tool_calls)}

\* the assistant turns of the call that carry the request id, and the tool
\* turns that answer it
CarryingTurns(c, id) ==
    LET h == History(c)
    IN  {p \in TurnsOf(c) : h[p].role = "assistant" /\ id \in RequestIds(h[p])}
AnsweringTurns(c, id) ==
    LET h == History(c)
    IN  {p \in TurnsOf(c) : h[p].role = "tool" /\ h[p].tool_call_id = id}
RequestedIds(c) ==
    LET h == History(c)
    IN  UNION {RequestIds(h[p]) : p \in {q \in TurnsOf(c) : h[q].role = "assistant"}}

\* C23 (as claimed): within one process_message call no requested tool call
\* is dispatched twice and the assistant turn that carries a request is
\* appended once, the round on which the iteration ceiling is reached
\* included.
C23_RequestsHandledOnce ==
    \A c \in AgentCallers :
        Started(c) =>
            \A id \in RequestedIds(c) :
                /\ Cardinality(CarryingTurns(c, id)) = 1
                /\ Cardinality(AnsweringTurns(c, id)) <= 1

\* the completion requests a call has made
Requests(f) == f.tool_requests + f.plain_requests

\* the turns a step appends to the history of the call's user
Appended(c) ==
    LET u == calls[c].user_id
    IN  SubSeq(get_conversation_context(conversation_contexts', u),
               Len(get_conversation_context(conversation_contexts, u)) + 1,
               Len(get_conversation_context(conversation_contexts', u)))

\* the step makes a completion request for the call and the request fails:
\* no turn made of a completion's message arrives
CompletionFailed(c) ==
    /\ calls[c].pc \in {"photo_completion", "loop"}
    /\ calls'[c].user_id = calls[c].user_id
    /\ Requests(calls'[c]) = Requests(calls[c]) + 1
    /\ \A i \in 1..Len(Appended(c)) :
          ~(/\ Appended(c)[i].role = "assistant"
            /\ Appended(c)[i].content \in {Answer, FinalAnswer, NoContent})

\* the call ends: it appends the apology once, as its last turn, and
\* returns it; a returned call makes no request
EndsWithApology(c) ==
    /\ calls'[c].pc = "done"
    /\ calls'[c].ret = Apology
    /\ Len(Appended(c)) >= 1
    /\ IsApologyTurn(Appended(c)[Len(Appended(c))])
    /\ Cardinality({i \in 1..Len(Appended(c)) : IsApologyTurn(Appended(c)[i])}) = 1

\* C24 (as claimed): whenever a completion request of a process_message call
\* fails, in the eager photo pass, in a loop iteration or in the final
\* request, the call makes no further request, appends the apology once and
\* returns it.
C24_FailedRequestEndsCall ==
    [][\A c \in AgentCallers : CompletionFailed(c) => EndsWithApology(c)]_vars

\* C24 (amended): a failed completion request of a loop iteration or the
\* failed final request ends the call with the apology appended once and
\* returned; a failed request of the eager photo pass is absorbed: nothing is
\* appended and the call goes on with the main loop.
C24_FailedLoopRequestEndsCall ==
    [][\A c \in AgentCallers :
          CompletionFailed(c) =>
              IF calls[c].pc = "photo_completion"
              THEN /\ calls'[c].pc = "loop"
                   /\ calls'[c].iteration = 0
                   /\ Appended(c) = <<>>
              ELSE EndsWithApology(c)]_vars

\* the final request of a call with a photo has failed
C24_Witness ==
    \E c \in AgentCallers :
        /\ calls[c].aborted
        /\ calls[c].plain_requests = 1
        /\ calls[c].photo_path
        /\ calls[c].photo_exc

\* a turn made of the text of a completion without tool calls
IsTextTurn(t) == t.role = "assistant" /\ t.content \in {Answer, FinalAnswer}

\* the step makes a completion request for the call and the completion
\* that arrives carries no tool calls
TextCompletion(c) ==
    /\ Active(c)
    /\ calls'[c].user_id = calls[c].user_id
    /\ Requests(calls'[c]) = Requests(calls[c]) + 1
    /\ \E i \in 1..Len(Appended(c)) : IsTextTurn(Appended(c)[i])

\* C25: a completion without tool calls is appended as an assistant turn,
\* once and as the last turn of the call, and its text is returned; the
\* returned call makes no completion request and dispatches nothing.
C25_TextCompletionEndsCall ==
    [][\A c \in AgentCallers :
          /\ TextCompletion(c) =>
                /\ IsTextTurn(Appended(c)[Len(Appended(c))])
                /\ Appended(c)[Len(Appended(c))].tool_calls = NoToolCalls
                /\ Cardinality({i \in 1..Len(Appended(c)) : IsTextTurn(Appended(c)[i])}) = 1
                /\ calls'[c].ret = Appended(c)[Len(Appended(c))].content
                /\ calls'[c].pc = "done"
          /\ Returned(c) =>
                \/ calls'[c] = calls[c]
                \/ /\ Requests(calls'[c]) = 0
                   /\ calls'[c].n_dispatch = 0
                   /\ calls'[c].base = Len(History(c))]_vars

\* a call has returned the text of a completion without tool calls, after
\* a round of tool calls
C25_Witness ==
    \E c \in AgentCallers :
        /\ Returned(c)
        /\ calls[c].ret = Answer
        /\ calls[c].n_dispatch > 0
        /\ History(c)[Len(History(c))].content = Answer

\* the turn the eager pass injects
IsInjectedTurn(t) ==
    t.role = "assistant" /\ t.content = ToolResults /\ t.tool_calls = NoToolCalls

\* the places of the injected turns among the turns of the call
InjectedAt(c) == {p \in TurnsOf(c) : IsInjectedTurn(History(c)[p])}

\* C26: a call with a photo makes one eager image search, with k = 3 and
\* without price bounds, after its user turn and before its first completion
\* request; results are injected as one turn directly after the user turn;
\* after a failed or empty search nothing is injected and the main loop
\* follows. A call without a photo makes no eager search.
C26_OneEagerSearch ==
    \A c \in AgentCallers :
        Started(c) =>
            LET f == calls[c]
            IN  /\ History(c)[First(c)].role = "user"
                /\ ~f.photo_path => (f.eager_searches = <<>> /\ InjectedAt(c) = {})
                /\ f.photo_path =>
                      /\ Len(f.eager_searches) = 1
                      /\ f.eager_searches[1].fn = "search_products_by_photo"
                      /\ f.eager_searches[1].k = 3
                      /\ f.eager_searches[1].min_price = <<>>
                      /\ f.eager_searches[1].max_price = <<>>
                      /\ IF f.eager_searches[1].outcome = "results"
                         THEN InjectedAt(c) = {First(c) + 1}
                         ELSE /\ InjectedAt(c) = {}
                              /\ f.pc # "photo_completion"
                              /\ Requests(f) = 0 => (f.pc = "loop" /\ f.iteration = 0)

\* the eager search of a call returned nothing and the main loop answered
C26_Witness ==
    \E c \in AgentCallers :
        /\ Returned(c)
        /\ calls[c].photo_path
        /\ Len(calls[c].eager_searches) = 1
        /\ calls[c].eager_searches[1].outcome = "empty"
        /\ calls[c].ret = Answer

\* s is a prefix of t
IsPrefix(s, t) == Len(s) <= Len(t) /\ SubSeq(t, 1, Len(s)) = s

\* the step is a clear_context of the user's history
Cleared(user_id) ==
    /\ command' # command
    /\ command'.command = "clear"
    /\ command'.user = user_id

\* C27: except for clear_context, every step leaves the previous content of
\* a user's history as a prefix of the new content.
C27_AppendOnly ==
    [][\A u \in Users :
          ~Cleared(u) =>
              IsPrefix(get_conversation_context(conversation_contexts, u),
                       get_conversation_context(conversation_contexts', u))]_vars

\* a history was cleared and a call made afterwards has appended an eager
\* result and its answer to the new one
C27_Witness ==
    \E c \in AgentCallers :
        /\ command.command = "clear"
        /\ command.removed >= 2
        /\ Returned(c)
        /\ calls[c].base = 0
        /\ Len(History(c)) = 3

\* the place in the raw matches where product b is seen first
FirstSeenAt(b) == CHOOSE i \in Occurrences(b) : \A j \in Occurrences(b) : i <= j

\* C28: the ranked output is sorted by score in non-increasing order, holds
\* no product twice, and products of equal score are in the order in which
\* they were first seen in the raw matches.
C28_SortedUniqueFirstSeen ==
    Searched =>
        \A i \in 1..Len(search.top_bouquets), j \in 1..Len(search.top_bouquets) :
            i < j =>
                LET x == search.top_bouquets[i]
                    y == search.top_bouquets[j]
                IN  /\ x.score >= y.score
                    /\ x.meta.bouquet_id # y.meta.bouquet_id
                    /\ x.score = y.score =>
                          FirstSeenAt(x.meta.bouquet_id) < FirstSeenAt(y.meta.bouquet_id)

\* two products of equal score in the output; the one seen first reached
\* that score only with a later document
C28_Witness ==
    /\ Searched
    /\ \E i \in 1..Len(search.top_bouquets), j \in 1..Len(search.top_bouquets) :
          LET x == search.top_bouquets[i]
              y == search.top_bouquets[j]
          IN  /\ i < j
              /\ x.score = y.score
              /\ Score(search.results[FirstSeenAt(x.meta.bouquet_id)].distance) < x.score
              /\ x.meta.id > y.meta.id

\* the products that match the filter, and the best score of each over all
\* its documents in the index
MatchingProducts == {matches[i].bouquet_id : i \in 1..Len(matches)}
BestInIndex(b) ==
    MaxOf({Score(matches[i].distance) : i \in {j \in 1..Len(matches) : matches[j].bouquet_id = b}})
Returns == {search.top_bouquets[j].meta.bouquet_id : j \in 1..Len(search.top_bouquets)}
Min(a, b) == IF a < b THEN a ELSE b

\* C29: a search asks the index for 2k candidates; with at most two
\* documents per product it returns min(k, matching products) products,
\* each with its best score, and no product left out has a better score
\* than a product returned.
C29_OversamplingSuffices ==
    Searched =>
        /\ search.n_results = 2 * search.k
        /\ Len(search.results) = Min(2 * search.k, Len(matches))
        /\ Len(search.top_bouquets) = Min(search.k, Cardinality(MatchingProducts))
        /\ Cardinality(Returns) = Len(search.top_bouquets)
        /\ \A j \in 1..Len(search.top_bouquets) :
              /\ search.top_bouquets[j].score
                    = BestInIndex(search.top_bouquets[j].meta.bouquet_id)
              /\ \A b \in MatchingProducts \ Returns :
                    BestInIndex(b) <= search.top_bouquets[j].score

\* the index holds more documents than the search asked for, a returned
\* product has two documents among the candidates, and a product is left out
C29_Witness ==
    /\ Searched
    /\ Len(matches) > search.n_results
    /\ Len(search.top_bouquets) = search.k
    /\ \E b \in Returns : Cardinality(Occurrences(b)) = 2
    /\ MatchingProducts \ Returns # {}
    /\ \E b \in MatchingProducts : Occurrences(b) = {}

\* the live timers of a user and a trigger name: armed, not finished and
\* not cancelled
LiveTimers(user_id, name) == {t \in tasks : t.user = user_id /\ t.type = name}

\* C30: at every moment a user has at most one live timer of a trigger
\* name, and it is the one pending_followups holds under that name.
C30_OneLiveTimerPerName ==
    \A u \in BotUsers : \A n \in TriggerNames :
        /\ Cardinality(LiveTimers(u, n)) <= 1
        /\ LiveTimers(u, n) = PendingTask(u, n)

\* a reply found timers of two names still pending and armed only the
\* third name, whose timer had finished
C30_Witness ==
    \E u \in BotUsers :
        \E n \in TriggerNames, m \in TriggerNames :
            \E t1 \in LiveTimers(u, n), t2 \in LiveTimers(u, m) :
                /\ t1.armed_at < t2.armed_at
                /\ t1.st = "sleeping"
                /\ t2.st = "sleeping"

\* properties of the third part

\* the names recorded as sent for a user
SentOf(sent, user_id) == IF user_id \in DOMAIN sent THEN sent[user_id] ELSE {}

\* the step records an inbound event of the user: update_user_activity
ActivityRecorded(user_id) ==
    /\ user_id \in DOMAIN last_message_time'
    /\ last_message_time'[user_id] = now'
    /\ now' # now

\* the delay of task t elapses in the step: the task leaves its sleep and
\* was not cancelled
Fired(t) ==
    /\ t \in tasks
    /\ t.st = "sleeping"
    /\ t \notin tasks'
    /\ t \notin cancelled'

\* C31: sent_followups[u] loses names only at an inbound event of u; a
\* trigger fire adds at most its own name and leaves last_message_time,
\* last_bot_response_time and the other pending timers as they are.
C31_FiredSetFrame ==
    [][/\ \A u \in BotUsers :
             ~(SentOf(sent_followups, u) \subseteq SentOf(sent_followups', u))
                 => (ActivityRecorded(u) /\ SentOf(sent_followups', u) = {})
       /\ \A t \in tasks :
             Fired(t) =>
                 /\ SentOf(sent_followups, t.user) \subseteq SentOf(sent_followups', t.user)
                 /\ SentOf(sent_followups', t.user)
                       \subseteq SentOf(sent_followups, t.user) \cup {t.type}
                 /\ last_message_time' = last_message_time
                 /\ last_bot_response_time' = last_bot_response_time
                 /\ pending_followups' = pending_followups
                 /\ tasks \ {t} \subseteq tasks']_vars

\* two triggers of a user have fired and the third is still asleep
C31_Witness ==
    \E u \in BotUsers :
        /\ Cardinality(SentOf(sent_followups, u)) = 2
        /\ \E t \in tasks :
              /\ t.user = u
              /\ t.st = "sleeping"
              /\ t.type \notin SentOf(sent_followups, u)

\* the entry of a per-user dict, when there is one
EntryOf(map, user_id) == IF user_id \in DOMAIN map THEN <<map[user_id]>> ELSE <<>>

\* the ConversationState and the EngagementState of a user: history,
\* timestamps, pending timers (the dict and the tasks) and fired set
StateOf(user_id) ==
    [history |-> EntryOf(conversation_contexts, user_id),
     last_message_time |-> EntryOf(last_message_time, user_id),
     last_bot_response_time |-> EntryOf(last_bot_response_time, user_id),
     pending_followups |-> EntryOf(pending_followups, user_id),
     timers |-> {t \in tasks : t.user = user_id},
     sent_followups |-> EntryOf(sent_followups, user_id)]

\* the step changes the state of the user
Touched(user_id) == StateOf(user_id)' # StateOf(user_id)

\* the step is a step of a handler of the user or of a command of the user
HandledFor(user_id) ==
    \/ handlers'[user_id] # handlers[user_id]
    \/ command' # command /\ command'.user = user_id

\* C32: a step of an operation performed for one user leaves the
\* ConversationState and the EngagementState of every other user unchanged.
C32_OtherUsersUnchanged ==
    [][\A u \in Users, v \in Users :
          (u # v /\ (Touched(v) \/ HandledFor(v))) => ~Touched(u)]_vars

\* the history of a user was cleared while the other user has a history
C32_Witness ==
    \E u \in Users, v \in Users :
        /\ u # v
        /\ command.command = "clear"
        /\ command.user = u
        /\ command.removed > 0
        /\ get_conversation_context(conversation_contexts, u) = <<>>
        /\ get_conversation_context(conversation_contexts, v) # <<>>

\* the entry of bouquets.json the last round of the batch worked on
LastBouquet == embed.bouquets[embed.i - 1]

\* C33: the batch upserts nothing for an entry whose deleted_at is set; for
\* a live entry it writes at most its text document and its photo document;
\* the collection holds at most one document per document id, so at most
\* one text and one photo document per product, also after the batch has
\* been run again.
C33_OneDocumentPerKind ==
    embed.pc # "none" =>
        /\ \A j \in 1..Len(embed.collection), k \in 1..Len(embed.collection) :
              j # k => embed.collection[j].id # embed.collection[k].id
        /\ \A j \in 1..Len(embed.collection) :
              /\ embed.collection[j].type \in {"text", "photo"}
              /\ embed.collection[j].id
                    = <<embed.collection[j].type, embed.collection[j].bouquet_id>>
        /\ embed.i = 1 => embed.upserted = <<>>
        /\ embed.i > 1 =>
              /\ LastBouquet.deleted_at => embed.upserted = <<>>
              /\ \A j \in 1..Len(embed.upserted) :
                    embed.upserted[j] \in {<<"text", LastBouquet.id>>,
                                           <<"photo", LastBouquet.id>>}
              /\ Len(embed.upserted) <= 2
              /\ Len(embed.upserted) = 2 => embed.upserted[1] # embed.upserted[2]

\* the batch, run again, has written both documents of a product over the
\* documents of the first run, and the collection still holds the documents
\* of an entry that was deleted in between
C33_Witness ==
    /\ embed.pc = "running"
    /\ embed.run = 2
    /\ embed.i > 1
    /\ Len(embed.upserted) = 2
    /\ Len(embed.collection) = 4
    /\ \E j \in 1..Len(embed.bouquets) :
          /\ embed.bouquets[j].deleted_at
          /\ \E k \in 1..Len(embed.collection) :
                embed.collection[k].bouquet_id = embed.bouquets[j].id

\* the filter search_products_by_text and search_products_by_photo send for
\* the arguments of the search
SentBySearchTools ==
    IF search.fn \in {"text_query", "search_products_by_text"}
    THEN WhereFilter(TextFilters(search.document_type, search.min_price,
                                 search.max_price))
    ELSE WhereFilter(PhotoFilters(search.min_price, search.max_price))

\* C34: every query of the four entry points, text_query and photo_query
\* included, passes no filter when no predicate applies, never an empty filter
\* object, and for every combination of arguments passes the filter that
\* search_products_by_text and search_products_by_photo pass.
C34_QueriesSendTheSameFilter ==
    Searched =>
        /\ search.where_filter # Some(EmptyFilter)
        /\ search.where_filter = SentBySearchTools

\* photo_query(image_url, None, None, 5), the call at query_photo.py:51,
\* queries the index with where = {}
C34_EmptyFilterSent ==
    /\ search.fn = "photo_query"
    /\ NoArguments
    /\ search.where_filter = Some(EmptyFilter)
    /\ SentBySearchTools = None

\* the user turn process_message appends for the inbound message
IsInboundTurn(t) ==
    t.role = "user" /\ t.content = UserMessage /\ t.tool_calls = NoToolCalls

\* C35: when a process_message call has returned, the turns it appended
\* begin with the user turn that holds the inbound message and end with an
\* assistant turn without tool calls whose content is the returned text: on
\* the eager photo path, the plain answer path, the iteration ceiling path
\* and the exception path.
C35_BlockFromInboundToReturned ==
    \A c \in AgentCallers :
        Returned(c) =>
            /\ calls[c].last > calls[c].base + 1
            /\ calls[c].last = Len(History(c))
            /\ IsInboundTurn(History(c)[calls[c].base + 1])
            /\ History(c)[calls[c].last].role = "assistant"
            /\ History(c)[calls[c].last].tool_calls = NoToolCalls
            /\ History(c)[calls[c].last].content = calls[c].ret

\* a call with a photo, made after an earlier call of the user, has injected
\* the eager result, run into an exception and returned the apology
C35_Witness ==
    \E c \in AgentCallers :
        /\ Returned(c)
        /\ calls[c].base >= 2
        /\ calls[c].aborted
        /\ IsInjectedTurn(History(c)[calls[c].base + 2])
        /\ calls[c].ret = Apology
        /\ History(c)[calls[c].last].content = Apology

\* the user turn a fired trigger appends
IsIdleNoteTurn(t) == t.role = "user" /\ t.content \in IdleNotes

\* the step ends the processing of trigger t: its process_message call is
\* over, by a return or by a cancellation
ProcessingEnds(t) == t \in tasks /\ t.st = "processing" /\ t \notin tasks'

\* the step appends one assistant turn to the history of the user
AssistantTurnAppended(user_id) ==
    LET old == get_conversation_context(conversation_contexts, user_id)
        new == get_conversation_context(conversation_contexts', user_id)
    IN  /\ Len(new) = Len(old) + 1
        /\ SubSeq(new, 1, Len(old)) = old
        /\ new[Len(new)].role = "assistant"

\* C36: every 'user did not answer in ...' turn of a fired trigger gets an
\* assistant turn produced for it: the processing of a trigger that has
\* appended its turn ends only with an assistant turn appended, also when an
\* inbound event cancels the trigger while it is being processed.
C36_IdleNoteAnswered ==
    [][\A t \in tasks : ProcessingEnds(t) => AssistantTurnAppended(t.user)]_vars

\* an inbound event has cancelled a trigger that was being processed: its
\* 'user did not answer in ...' turn is the last turn of the history and no
\* trigger is left to answer it
C36_IdleNoteLeftUnanswered ==
    \E u \in BotUsers :
        LET ctx == get_conversation_context(conversation_contexts, u)
        IN  /\ ctx # <<>>
            /\ IsIdleNoteTurn(ctx[Len(ctx)])
            /\ \E t \in cancelled : t.user = u /\ t.st = "processing"
            /\ ~\E t \in tasks : t.user = u

\* C37: a /clear of a user changes only the history of that user:
\* last_message_time, last_bot_response_time, the pending timers and
\* sent_followups stay as they are, so the triggers armed before it stay
\* armed (and fire into the fresh history, as the witness shows).
C37_ClearKeepsEngagement ==
    [][\A u \in Users :
          ClearStep(u) =>
              /\ After(u) = <<>>
              /\ \A v \in Users \ {u} : After(v) = Before(v)
              /\ last_message_time' = last_message_time
              /\ last_bot_response_time' = last_bot_response_time
              /\ pending_followups' = pending_followups
              /\ sent_followups' = sent_followups
              /\ tasks' = tasks
              /\ first_message_sent' = first_message_sent]_vars

\* a trigger armed before the /clear of a user has fired after it: the fresh
\* history starts with the trigger's 'user did not answer in ...' turn
C37_Witness ==
    \E u \in Users :
        LET ctx == get_conversation_context(conversation_contexts, u)
        IN  /\ command.command = "clear"
            /\ command.user = u
            /\ command.removed > 0
            /\ ctx # <<>>
            /\ IsIdleNoteTurn(ctx[1])
            /\ "first" \in SentOf(sent_followups, u)

\* the step starts the 15 second wait of a first message of the user
FirstWaitStarts(user_id) ==
    handlers'[user_id]["first_wait"] > handlers[user_id]["first_wait"]

\* C38: when a handler starts the first-message wait for a user, the user
\* has no pending timer: every user with a timer is in first_message_sent,
\* and the wait starts only for a user who is not. The wait starts at most
\* once per user, also with several first messages handled at a time: it
\* puts the user into first_message_sent, which never loses a user.
C38_OneFirstWaitWithoutTimers ==
    [][\A u \in BotUsers :
          /\ \A t \in tasks : t.user \in first_message_sent
          /\ PendingOf(u) # <<>> => u \in first_message_sent
          /\ first_message_sent \subseteq first_message_sent'
          /\ handlers[u]["first_wait"] <= 1
          /\ FirstWaitStarts(u) =>
                /\ u \notin first_message_sent
                /\ u \in first_message_sent'
                /\ ~\E t \in tasks : t.user = u
                /\ PendingOf(u) = <<>>]_vars

\* while the handler of the first message of a user waits, a second handler
\* of the user has answered at once and armed the timers
C38_Witness ==
    \E u \in BotUsers :
        /\ handlers[u]["first_wait"] = 1
        /\ \E t \in tasks : t.user = u /\ t.st = "sleeping"
        /\ DOMAIN PendingOf(u) = TriggerNames

\* C39: one call of send_response_with_photos delivers the response text
\* at most once: after a delivery step has succeeded (photo with caption,
\* media group, HTML text or plain text) no further copy of the response is
\* sent, whichever later step fails.
C39_ResponseDeliveredOnce ==
    sending.pc # "idle" => sending.copies <= 1

\* the media group went out with the response as caption, the payment
\* button that follows it raised, and the response went out again as text
C39_ResponseDeliveredTwice ==
    /\ sending.pc = "done"
    /\ sending.photo_urls >= 2
    /\ sending.payment_url
    /\ sending.copies = 2
====
